---- MODULE Spec2Model ----
(***************************************************************************)
(* A model of the MMA webhook (src/app.py): the expiring cache, the rate   *)
(* limiter, the cache-backed data store in front of the upstream API, the  *)
(* cache invalidation endpoint and the fighter name resolver.              *)
(*                                                                         *)
(* Python values are modelled as records with a "kind" field, so that any  *)
(* two values can be compared; a Python dict is a function whose DOMAIN is *)
(* its key set, or, where the iteration order matters, a sequence of       *)
(* entries in insertion order.                                             *)
(***************************************************************************)
EXTENDS Integers, Sequences, FiniteSets, TLC

(***************************************************************************)
(* Bounds of the model.                                                    *)
(***************************************************************************)
MaxTTL == 3          \* largest ttl given to the stand-alone TTLCache
MaxClock == 5        \* last instant of the stand-alone TTLCache's clock
MaxWrites == 3       \* set() calls the concurrent callers of a TTLCache make
MaxReleases == 3     \* calls of wait_if_needed that are followed to their return
MaxRLClock == 6      \* ticks the rate limiter's clock runs past its start
TicksPerSecond == 6  \* resolution of the rate limiter's clock
MaxTicks == 2        \* times the data store's clock is advanced
MaxCycles == 3       \* cycles of the background refresher that are followed

(***************************************************************************)
(* The state.  The first group is a stand-alone TTLCache and its callers,  *)
(* the second a RateLimiter and its callers, the third the process-wide    *)
(* state of the data store, the fourth the name resolver's alias map.      *)
(***************************************************************************)
VARIABLES tcache, tclock, tlast, tstored, tthr, twrites, tstamped

VARIABLES rl, rclock, rthr, rreleased

VARIABLES CACHE, REDIS_ENABLED, redis_db, api_rate_limiter, now, ticks, upstream, last, traffic, view_stored

VARIABLES name_map, answers

VARIABLES refresher, initializer

ttlVars == <<tcache, tclock, tlast, tstored, tthr, twrites, tstamped>>

rlVars == <<rl, rclock, rthr, rreleased>>

storeVars == <<CACHE, REDIS_ENABLED, redis_db, api_rate_limiter, now, ticks, upstream, last, traffic, view_stored>>

resVars == <<name_map, answers>>

bgVars == <<refresher, initializer>>

vars == <<ttlVars, rlVars, storeVars, resVars, bgVars>>

(***************************************************************************)
(* Python values.                                                          *)
(***************************************************************************)
None == [kind |-> "None"]

EmptyDict == [k \in {} |-> None]

DictSet(d, k, v) == [x \in (DOMAIN d) \cup {k} |-> IF x = k THEN v ELSE d[x]]

DictDel(d, k) == [x \in (DOMAIN d) \ {k} |-> d[x]]

(***************************************************************************)
(* Python str methods, on strings of printable ASCII characters.           *)
(***************************************************************************)
Upper == "ABCDEFGHIJKLMNOPQRSTUVWXYZ"

Lowercase == "abcdefghijklmnopqrstuvwxyz"

CharAt(s, i) == SubSeq(s, i, i)

UpperSet == {CharAt(Upper, i) : i \in 1..26}

LowerOf == [c \in UpperSet |-> CharAt(Lowercase, CHOOSE i \in 1..26 : CharAt(Upper, i) = c)]

\* c.lower() for one character
LowerChar(c) == IF c \in UpperSet THEN LowerOf[c] ELSE c

RECURSIVE Lower(_)
\* s.lower()
Lower(s) == IF s = "" THEN "" ELSE LowerChar(CharAt(s, 1)) \o Lower(SubSeq(s, 2, Len(s)))

RECURSIVE LStrip(_)
LStrip(s) == IF s # "" /\ CharAt(s, 1) = " " THEN LStrip(SubSeq(s, 2, Len(s))) ELSE s

RECURSIVE RStrip(_)
RStrip(s) == IF s # "" /\ CharAt(s, Len(s)) = " " THEN RStrip(SubSeq(s, 1, Len(s) - 1)) ELSE s

\* s.strip()
Strip(s) == RStrip(LStrip(s))

\* s[i:].startswith(sub), i counted from 1
MatchAt(sub, s, i) == i + Len(sub) - 1 <= Len(s) /\ SubSeq(s, i, i + Len(sub) - 1) = sub

\* sub in s
Contains(sub, s) == \E i \in 1..(Len(s) + 1) : MatchAt(sub, s, i)

\* s.startswith(prefix)
StartsWith(s, prefix) == MatchAt(prefix, s, 1)

RECURSIVE Replace(_, _, _)
\* s.replace(old, new), old not empty
Replace(s, old, new) ==
    IF s = "" THEN ""
    ELSE IF MatchAt(old, s, 1)
         THEN new \o Replace(SubSeq(s, Len(old) + 1, Len(s)), old, new)
         ELSE CharAt(s, 1) \o Replace(SubSeq(s, 2, Len(s)), old, new)

RECURSIVE SplitFrom(_, _)
\* the words of s, cur being the word read so far
SplitFrom(s, cur) ==
    IF s = "" THEN (IF cur = "" THEN <<>> ELSE <<cur>>)
    ELSE IF CharAt(s, 1) = " "
         THEN (IF cur = "" THEN <<>> ELSE <<cur>>) \o SplitFrom(SubSeq(s, 2, Len(s)), "")
         ELSE SplitFrom(SubSeq(s, 2, Len(s)), cur \o CharAt(s, 1))

\* s.split()
Split(s) == SplitFrom(s, "")

(***************************************************************************)
(* class TTLCache.  An instance is the record of its three attributes; a   *)
(* method is an operator from the instance, the arguments and the value    *)
(* of time.time() to the returned value and the instance afterwards.       *)
(***************************************************************************)
TTLCache(ttl) == [cache |-> EmptyDict, timestamps |-> EmptyDict, ttl |-> ttl]

TTLCache_get_LE(self, key, t) ==
    IF key \in DOMAIN self.cache
    THEN IF t - self.timestamps[key] <= self.ttl
         THEN [ret |-> self.cache[key], self |-> self]
         ELSE [ret |-> None,
               self |-> [self EXCEPT !.cache = DictDel(self.cache, key),
                                     !.timestamps = DictDel(self.timestamps, key)]]
    ELSE [ret |-> None, self |-> self]

TTLCache_get(self, key, t) ==
    IF key \in DOMAIN self.cache
    THEN IF t - self.timestamps[key] < self.ttl
         THEN [ret |-> self.cache[key], self |-> self]
         ELSE [ret |-> None,
               self |-> [self EXCEPT !.cache = DictDel(self.cache, key),
                                     !.timestamps = DictDel(self.timestamps, key)]]
    ELSE [ret |-> None, self |-> self]

TTLCache_set(self, key, value, t) ==
    [self EXCEPT !.cache = DictSet(self.cache, key, value),
                 !.timestamps = DictSet(self.timestamps, key, t)]

TTLCache_clear(self) ==
    [self EXCEPT !.cache = EmptyDict, !.timestamps = EmptyDict]

(***************************************************************************)
(* A stand-alone TTLCache used by one caller: tcache is the instance,      *)
(* tclock the value of time.time(), tlast the last call and what it        *)
(* returned, tstored the (value, time) of the last set of each key that    *)
(* no clear() has removed since.                                           *)
(***************************************************************************)

TKeys == {"k1", "k2"}

TValues == {[kind |-> "str", s |-> "v1"], [kind |-> "str", s |-> "v2"]}

NoCall == [op |-> "none", key |-> "", ret |-> None, at |-> 0]

TTLGet(k) ==
    LET r == TTLCache_get(tcache, k, tclock)
    IN /\ tcache' = r.self
       /\ tlast' = [op |-> "get", key |-> k, ret |-> r.ret, at |-> tclock]
       /\ UNCHANGED <<tclock, tstored, tthr, twrites, tstamped, rlVars, storeVars, resVars, bgVars>>

TTLSet(k, v) ==
    /\ tcache' = TTLCache_set(tcache, k, v, tclock)
    /\ tlast' = [op |-> "set", key |-> k, ret |-> None, at |-> tclock]
    /\ tstored' = [tstored EXCEPT ![k] = [kind |-> "stored", value |-> v, at |-> tclock]]
    /\ UNCHANGED <<tclock, tthr, twrites, tstamped, rlVars, storeVars, resVars, bgVars>>

TTLClear ==
    /\ tcache' = TTLCache_clear(tcache)
    /\ tlast' = [op |-> "clear", key |-> "", ret |-> None, at |-> tclock]
    /\ tstored' = [k \in TKeys |-> None]
    /\ UNCHANGED <<tclock, tthr, twrites, tstamped, rlVars, storeVars, resVars, bgVars>>

TTLTick ==
    /\ tclock < MaxClock
    /\ tclock' = tclock + 1
    /\ UNCHANGED <<tcache, tlast, tstored, tthr, twrites, tstamped, rlVars, storeVars, resVars, bgVars>>

TTLNext ==
    \/ \E k \in TKeys : TTLGet(k)
    \/ \E k \in TKeys, v \in TValues : TTLSet(k, v)
    \/ TTLClear
    \/ TTLTick


\* C1: a get(k) issued when the time D elapsed since the last set(k, v) is
\* less than the instance's ttl returns v; a get(k) issued when D >= ttl
\* returns absent and leaves k in neither the value nor the timestamp table.
C1_GetIffFresh ==
    \A k \in TKeys :
        (tlast.op = "get" /\ tlast.key = k /\ tstored[k] # None) =>
            IF tlast.at - tstored[k].at < tcache.ttl
            THEN tlast.ret = tstored[k].value
            ELSE /\ tlast.ret = None
                 /\ k \notin DOMAIN tcache.cache
                 /\ k \notin DOMAIN tcache.timestamps

\* a get found its entry expired and purged it, leaving the other key's entry
C1_Witness ==
    /\ tlast.op = "get"
    /\ tstored[tlast.key] # None
    /\ tlast.at - tstored[tlast.key].at >= tcache.ttl
    /\ tcache.ttl > 0
    /\ \E k \in TKeys : k # tlast.key /\ k \in DOMAIN tcache.cache

(***************************************************************************)
(* The same TTLCache shared by concurrent callers (the request threads and *)
(* the background refresher).  The interpreter switches threads between    *)
(* the dictionary operations of get and set, so each is a step of its own. *)
(* tthr[t] is caller t's position and locals; twrites counts the set()     *)
(* calls, each value carrying the number (wid) of the call that wrote it;  *)
(* tstamped[k] is the number of the call that wrote timestamps[k].         *)
(***************************************************************************)
TThreads == 1..2

\* the callers contend for one key
CKeys == {"k1"}

TIdle == [pc |-> "idle", op |-> "none", key |-> "", value |-> None, ret |-> None, err |-> FALSE]

\* a caller enters get(key)
CallGet(t, k) ==
    /\ tthr[t].pc = "idle"
    /\ tthr' = [tthr EXCEPT ![t] = [TIdle EXCEPT !.pc = "G45", !.op = "get", !.key = k]]
    /\ UNCHANGED <<tcache, tclock, tlast, tstored, twrites, tstamped, rlVars, storeVars, resVars, bgVars>>

\* a caller enters set(key, value)
CallSet(t, k, v) ==
    /\ tthr[t].pc = "idle"
    /\ twrites < MaxWrites
    /\ twrites' = twrites + 1
    /\ tthr' = [tthr EXCEPT ![t] = [TIdle EXCEPT !.pc = "S56", !.op = "set", !.key = k,
                    !.value = [kind |-> "str", s |-> v.s, wid |-> twrites + 1]]]
    /\ UNCHANGED <<tcache, tclock, tlast, tstored, tstamped, rlVars, storeVars, resVars, bgVars>>

Return(t, v) == [tthr EXCEPT ![t].pc = "idle", ![t].ret = v]

KeyError(t) == [tthr EXCEPT ![t].pc = "idle", ![t].err = TRUE]

\* if key in self.cache:
Get45(t) ==
    /\ tthr[t].pc = "G45"
    /\ tthr' = IF tthr[t].key \in DOMAIN tcache.cache
               THEN [tthr EXCEPT ![t].pc = "G47"]
               ELSE Return(t, None)
    /\ UNCHANGED <<tcache, tclock, tlast, tstored, twrites, tstamped, rlVars, storeVars, resVars, bgVars>>

\* if time.time() - self.timestamps[key] < self.ttl:
Get47(t) ==
    /\ tthr[t].pc = "G47"
    /\ tthr' = IF tthr[t].key \notin DOMAIN tcache.timestamps
               THEN KeyError(t)
               ELSE IF tclock - tcache.timestamps[tthr[t].key] < tcache.ttl
                    THEN [tthr EXCEPT ![t].pc = "G48"]
                    ELSE [tthr EXCEPT ![t].pc = "G51"]
    /\ UNCHANGED <<tcache, tclock, tlast, tstored, twrites, tstamped, rlVars, storeVars, resVars, bgVars>>

\* return self.cache[key]
Get48(t) ==
    /\ tthr[t].pc = "G48"
    /\ tthr' = IF tthr[t].key \notin DOMAIN tcache.cache
               THEN KeyError(t)
               ELSE Return(t, tcache.cache[tthr[t].key])
    /\ UNCHANGED <<tcache, tclock, tlast, tstored, twrites, tstamped, rlVars, storeVars, resVars, bgVars>>

\* del self.cache[key]
Get51(t) ==
    /\ tthr[t].pc = "G51"
    /\ IF tthr[t].key \notin DOMAIN tcache.cache
       THEN tthr' = KeyError(t) /\ UNCHANGED tcache
       ELSE /\ tthr' = [tthr EXCEPT ![t].pc = "G52"]
            /\ tcache' = [tcache EXCEPT !.cache = DictDel(tcache.cache, tthr[t].key)]
    /\ UNCHANGED <<tclock, tlast, tstored, twrites, tstamped, rlVars, storeVars, resVars, bgVars>>

\* del self.timestamps[key], then return None
Get52(t) ==
    /\ tthr[t].pc = "G52"
    /\ IF tthr[t].key \notin DOMAIN tcache.timestamps
       THEN tthr' = KeyError(t) /\ UNCHANGED <<tcache, tstamped>>
       ELSE /\ tthr' = Return(t, None)
            /\ tcache' = [tcache EXCEPT !.timestamps = DictDel(tcache.timestamps, tthr[t].key)]
            /\ tstamped' = DictDel(tstamped, tthr[t].key)
    /\ UNCHANGED <<tclock, tlast, tstored, twrites, rlVars, storeVars, resVars, bgVars>>

\* self.cache[key] = value
Set56(t) ==
    /\ tthr[t].pc = "S56"
    /\ tcache' = [tcache EXCEPT !.cache = DictSet(tcache.cache, tthr[t].key, tthr[t].value)]
    /\ tthr' = [tthr EXCEPT ![t].pc = "S57"]
    /\ UNCHANGED <<tclock, tlast, tstored, twrites, tstamped, rlVars, storeVars, resVars, bgVars>>

\* self.timestamps[key] = time.time()
Set57(t) ==
    /\ tthr[t].pc = "S57"
    /\ tcache' = [tcache EXCEPT !.timestamps = DictSet(tcache.timestamps, tthr[t].key, tclock)]
    /\ tstamped' = DictSet(tstamped, tthr[t].key, tthr[t].value.wid)
    /\ tthr' = Return(t, None)
    /\ UNCHANGED <<tclock, tlast, tstored, twrites, rlVars, storeVars, resVars, bgVars>>

ConcTick ==
    /\ tclock < MaxClock
    /\ tclock' = tclock + 1
    /\ UNCHANGED <<tcache, tlast, tstored, tthr, twrites, tstamped, rlVars, storeVars, resVars, bgVars>>

ConcNext ==
    \/ \E t \in TThreads, k \in CKeys : CallGet(t, k)
    \/ \E t \in TThreads, k \in CKeys, v \in TValues : CallSet(t, k, v)
    \/ \E t \in TThreads : Get45(t)
    \/ \E t \in TThreads : Get47(t)
    \/ \E t \in TThreads : Get48(t)
    \/ \E t \in TThreads : Get51(t)
    \/ \E t \in TThreads : Get52(t)
    \/ \E t \in TThreads : Set56(t)
    \/ \E t \in TThreads : Set57(t)
    \/ ConcTick


TQuiet == \A t \in TThreads : tthr[t].pc = "idle"

\* C3: under any interleaving of get and set on the same key the value and
\* its timestamp are stored and removed as one pair: no get fails on a
\* missing half and, whenever no call is in progress, a key is in the value
\* table iff it is in the timestamp table, with the timestamp written by
\* the set() that wrote the value.
C3_PairIsAtomic ==
    /\ \A t \in TThreads : ~tthr[t].err
    /\ TQuiet =>
         /\ DOMAIN tcache.cache = DOMAIN tcache.timestamps
         /\ \A k \in DOMAIN tcache.cache : tstamped[k] = tcache.cache[k].wid

(***************************************************************************)
(* class RateLimiter, called by concurrent threads.  Time is counted in    *)
(* ticks of 1/TicksPerSecond seconds.  rl is the instance, rclock the      *)
(* value of time.time(), rthr[t] caller t's position and locals, rreleased *)
(* the times at which calls of wait_if_needed returned, in order.          *)
(***************************************************************************)

calls_per_second == 3

RateLimiter(cps) == [calls_per_second |-> cps, last_call_time |-> 0]

\* 1.0 / self.calls_per_second, in ticks
Interval(self) == TicksPerSecond \div self.calls_per_second

RThreads == 1..2

RIdle == [pc |-> "idle", current_time |-> 0, time_to_wait |-> 0, wake |-> 0]

\* time.time() is far past 0, the initial last_call_time
\* a thread enters wait_if_needed
RLCall(t) ==
    /\ rthr[t].pc = "idle"
    /\ Len(rreleased) < MaxReleases
    /\ rthr' = [rthr EXCEPT ![t] = [RIdle EXCEPT !.pc = "L70"]]
    /\ UNCHANGED <<rl, rclock, rreleased, ttlVars, storeVars, resVars, bgVars>>

\* current_time = time.time()
RL70(t) ==
    /\ rthr[t].pc = "L70"
    /\ rthr' = [rthr EXCEPT ![t].pc = "L71", ![t].current_time = rclock]
    /\ UNCHANGED <<rl, rclock, rreleased, ttlVars, storeVars, resVars, bgVars>>

\* time_since_last_call = current_time - self.last_call_time
\* time_to_wait = (1.0 / self.calls_per_second) - time_since_last_call
RL71(t) ==
    /\ rthr[t].pc = "L71"
    /\ rthr' = [rthr EXCEPT ![t].pc = "L74",
                   ![t].time_to_wait = Interval(rl) - (rthr[t].current_time - rl.last_call_time)]
    /\ UNCHANGED <<rl, rclock, rreleased, ttlVars, storeVars, resVars, bgVars>>

\* if time_to_wait > 0: time.sleep(time_to_wait)
RL74(t) ==
    /\ rthr[t].pc = "L74"
    /\ rthr' = IF rthr[t].time_to_wait > 0
               THEN [rthr EXCEPT ![t].pc = "L75", ![t].wake = rclock + rthr[t].time_to_wait]
               ELSE [rthr EXCEPT ![t].pc = "L77"]
    /\ UNCHANGED <<rl, rclock, rreleased, ttlVars, storeVars, resVars, bgVars>>

\* the sleep ends once time_to_wait has passed
RL75(t) ==
    /\ rthr[t].pc = "L75"
    /\ rclock >= rthr[t].wake
    /\ rthr' = [rthr EXCEPT ![t].pc = "L77"]
    /\ UNCHANGED <<rl, rclock, rreleased, ttlVars, storeVars, resVars, bgVars>>

\* self.last_call_time = time.time(), and the call returns
RL77(t) ==
    /\ rthr[t].pc = "L77"
    /\ rl' = [rl EXCEPT !.last_call_time = rclock]
    /\ rreleased' = Append(rreleased, rclock)
    /\ rthr' = [rthr EXCEPT ![t] = RIdle]
    /\ UNCHANGED <<rclock, ttlVars, storeVars, resVars, bgVars>>

RLTick ==
    /\ rclock < Interval(rl) + MaxRLClock
    /\ rclock' = rclock + 1
    /\ UNCHANGED <<rl, rthr, rreleased, ttlVars, storeVars, resVars, bgVars>>

RLNext ==
    \/ \E t \in RThreads : RLCall(t)
    \/ \E t \in RThreads : RL70(t)
    \/ \E t \in RThreads : RL71(t)
    \/ \E t \in RThreads : RL74(t)
    \/ \E t \in RThreads : RL75(t)
    \/ \E t \in RThreads : RL77(t)
    \/ RLTick

\* C2: the times at which concurrent callers are released from
\* wait_if_needed are pairwise at least 1/calls_per_second apart.
C2_ReleasesSpaced ==
    \A i, j \in 1..Len(rreleased) :
        i < j => rreleased[j] - rreleased[i] >= Interval(rl)

(***************************************************************************)
(* The cache-backed data store.  Time is time.time() in whole seconds.     *)
(*                                                                         *)
(* A handler is an operator from the process state it may change (st: the  *)
(* CACHE table, the Redis database, the rate limiter and the trace of the  *)
(* tiers it consulted) and its environment (e: the clock, REDIS_ENABLED,   *)
(* the upstream data, whether Redis answers its reads (rget) and writes    *)
(* (rset) and how the upstream answers each URL (resp)) to the state       *)
(* afterwards, the returned value and whether an exception left it.        *)
(***************************************************************************)
\* bool(v): None, {} and [] are false
Truthy(v) == v.kind \notin {"None", "empty"}

\* an empty JSON object or array
EmptyJson == [kind |-> "empty"]

json_dumps(v) == [kind |-> "bytes", json |-> v]

json_loads(b) == b.json

\* redis_client.get(key): the value while the key has not expired
redis_get(db, key, t) ==
    IF key \in DOMAIN db /\ t < db[key].expires THEN db[key].value ELSE None

\* redis_client.setex(key, ttl, value)
redis_setex(db, key, ttl, value, t) ==
    DictSet(db, key, [value |-> value, expires |-> t + ttl])

\* the keys Redis holds at time t
redis_keys(db, t) == {k \in DOMAIN db : t < db[k].expires}

\* RateLimiter.wait_if_needed by one caller at a time; the sleep, shorter
\* than a second, is below the resolution of this clock
RateLimiter_wait_if_needed(self, t) == [self EXCEPT !.last_call_time = t]

Ev(st, ev, key) == [st EXCEPT !.trace = Append(st.trace, [ev |-> ev, key |-> key])]

Returned(st, v) == [st |-> st, ret |-> v, raised |-> FALSE]

Raised(st) == [st |-> st, ret |-> None, raised |-> TRUE]

FailureKinds == {"Timeout", "HTTPError", "RequestException", "ValueError"}

Responses == {"ok"} \cup FailureKinds

(***************************************************************************)
(* The static tables of the program.                                       *)
(***************************************************************************)
\* the list FIGHTING_STYLES, in list order
FIGHTING_STYLES ==
    << "wrestler", "boxing", "bjj", "jiu jitsu", "muay thai", "karate",
       "kickbox", "sambo", "wrestler", "kickboxing", "boxing", "judo" >>

\* RETIRED_FIGHTERS: the entries in insertion order, with the fields the
\* data store and the resolver read
RETIRED_FIGHTERS ==
    << [key |-> "anderson silva",
          name |-> "Anderson Silva",
          nickname |-> "The Spider",
          category |-> "Middleweight Division (Former)",
          status |-> "Retired",
          fightingStyle |-> "Muay Thai, Brazilian Jiu-Jitsu",
          height |-> "74.00",
          weight |-> "185.00",
          reach |-> "77.50",
          legReach |-> "42.00"],
       [key |-> "georges st pierre",
          name |-> "Georges St-Pierre",
          nickname |-> "GSP",
          category |-> "Welterweight Division (Former)",
          status |-> "Retired",
          fightingStyle |-> "Wrestling, Boxing, Kyokushin Karate",
          height |-> "70.00",
          weight |-> "170.00",
          reach |-> "76.00",
          legReach |-> "41.00"],
       [key |-> "khabib nurmagomedov",
          name |-> "Khabib Nurmagomedov",
          nickname |-> "The Eagle",
          category |-> "Lightweight Division (Former)",
          status |-> "Retired",
          fightingStyle |-> "Sambo, Wrestling, Judo",
          height |-> "70.00",
          weight |-> "155.00",
          reach |-> "70.00",
          legReach |-> "40.00"],
       [key |-> "demetrious johnson",
          name |-> "Demetrious Johnson",
          nickname |-> "Mighty Mouse",
          category |-> "Flyweight Division (Former)",
          status |-> "Active in ONE Championship",
          fightingStyle |-> "Wrestling, Muay Thai, Brazilian Jiu-Jitsu",
          height |-> "64.00",
          weight |-> "125.00",
          reach |-> "66.00",
          legReach |-> "32.00"] >>

\* dictionaries as sequences of <<key, value>> in insertion order
FIGHTER_NICKNAMES ==
    << <<"the spider", "anderson silva">>, <<"gsp", "georges st pierre">>,
       <<"the eagle", "khabib nurmagomedov">>, <<"mighty mouse", "demetrious johnson">>,
       <<"bones", "jon jones">>, <<"notorious", "conor mcgregor">>,
       <<"stylebender", "israel adesanya">>, <<"the last stylebender", "israel adesanya">>,
       <<"poatan", "alex pereira">>, <<"reaper", "robert whittaker">>,
       <<"lionheart", "anthony smith">>, <<"borz", "khamzat chimaev">>,
       <<"el cucuy", "tony ferguson">>, <<"thug", "rose namajunas">>,
       <<"thug rose", "rose namajunas">>, <<"blessed", "max holloway">>,
       <<"the diamond", "dustin poirier">> >>

STANDALONE_LAST_NAMES ==
    << <<"cejudo", "henry-cejudo">>, <<"jones", "jon-jones">>,
       <<"adesanya", "israel-adesanya">>, <<"mcgregor", "conor-mcgregor">>,
       <<"poirier", "dustin-poirier">>, <<"holloway", "max-holloway">>,
       <<"oliveira", "charles-oliveira">>, <<"elliott", "tim-elliott">>,
       <<"pantoja", "alexandre-pantoja">>, <<"moreno", "brandon-moreno">>,
       <<"makhachev", "islam-makhachev">>, <<"volkanovski", "alexander-volkanovski">>,
       <<"pereira", "alex-pereira">>, <<"whittaker", "robert-whittaker">>,
       <<"chimaev", "khamzat-chimaev">>, <<"ngannou", "francis-ngannou">>,
       <<"cormier", "daniel-cormier">>, <<"stipe", "stipe-miocic">>,
       <<"miocic", "stipe-miocic">>, <<"usman", "kamaru-usman">>,
       <<"masvidal", "jorge-masvidal">>, <<"namajunas", "rose-namajunas">>,
       <<"shevchenko", "valentina-shevchenko">> >>

WEIGHT_CLASS_MAPPING ==
    << <<"flyweight", "flyweight">>, <<"bantamweight", "bantamweight">>,
       <<"featherweight", "featherweight">>, <<"lightweight", "lightweight">>,
       <<"welterweight", "welterweight">>, <<"middleweight", "middleweight">>,
       <<"light heavyweight", "light-heavyweight">>, <<"light-heavyweight", "light-heavyweight">>,
       <<"heavyweight", "heavyweight">>, <<"125", "flyweight">>,
       <<"135", "bantamweight">>, <<"145", "featherweight">>,
       <<"155", "lightweight">>, <<"170", "welterweight">>,
       <<"185", "middleweight">>, <<"205", "light-heavyweight">>,
       <<"265", "heavyweight">>, <<"women's strawweight", "womens-strawweight">>,
       <<"womens strawweight", "womens-strawweight">>, <<"women's flyweight", "womens-flyweight">>,
       <<"womens flyweight", "womens-flyweight">>, <<"women's bantamweight", "womens-bantamweight">>,
       <<"womens bantamweight", "womens-bantamweight">>, <<"fly", "flyweight">>,
       <<"bantam", "bantamweight">>, <<"feather", "featherweight">>,
       <<"light", "lightweight">>, <<"welter", "welterweight">>,
       <<"middle", "middleweight">>, <<"lhw", "light-heavyweight">>,
       <<"hw", "heavyweight">>, <<"pound-for-pound", "mens-pound-for-pound-top-rank">>,
       <<"pound for pound", "mens-pound-for-pound-top-rank">>, <<"p4p", "mens-pound-for-pound-top-rank">>,
       <<"men's p4p", "mens-pound-for-pound-top-rank">>, <<"mens p4p", "mens-pound-for-pound-top-rank">>,
       <<"women's p4p", "womens-pound-for-pound-top-rank">>, <<"womens p4p", "womens-pound-for-pound-top-rank">> >>


\* a dictionary kept as a sequence of <<key, value>>: key in d, d[key],
\* d[key] = value
ODHas(d, k) == \E i \in 1..Len(d) : d[i][1] = k

ODGet(d, k) == d[CHOOSE i \in 1..Len(d) : d[i][1] = k][2]

ODSet(d, k, v) ==
    IF ODHas(d, k)
    THEN [i \in 1..Len(d) |-> IF d[i][1] = k THEN <<k, v>> ELSE d[i]]
    ELSE Append(d, <<k, v>>)

(***************************************************************************)
(* The upstream API.  upstream is the revision of its data: at revision 0  *)
(* every endpoint answers with an empty JSON object, at the others with    *)
(* the roster, rankings and details below.  The roster is the JSON object  *)
(* id -> fighter in its order, the rankings the JSON array of divisions.   *)
(***************************************************************************)
Revisions == {0, 1, 2}

Fighter(id, name, nickname, style, height) ==
    [id |-> id, name |-> name, nickname |-> nickname, fightingStyle |-> style,
     category |-> "Light Heavyweight", status |-> "Active", height |-> height,
     weight |-> "205.00", reach |-> "84.50", legReach |-> "45.00"]

JonJones == Fighter("jon-jones", "Jon Jones", "Bones", "Wrestling", "76.00")

JudoJones == Fighter("judo-jones", "Judo Jones", "", "Judo", "N/A")

UpstreamFighters(rev) ==
    IF rev = 1 THEN <<JonJones, JudoJones>> ELSE <<JudoJones, JonJones>>

Division(id, categoryName) == [id |-> id, categoryName |-> categoryName]

UpstreamDivisions(rev) ==
    IF rev = 1
    THEN <<Division("lightweight", "Lightweight"),
           Division("light-heavyweight", "Light Heavyweight"),
           Division("womens-featherweight", "Women's Featherweight"),
           Division("mens-pound-for-pound-top-rank", "Men's Pound-for-Pound Top Rank")>>
    ELSE <<Division("lightweight", "Lightweight"),
           Division("light-heavyweight", "Light Heavyweight"),
           Division("mens-pound-for-pound-top-rank", "Men's Pound-for-Pound Top Rank")>>

OCTAGON_API_BASE_URL == "https://api.octagon-api.com"

FighterIds == {UpstreamFighters(1)[i].id : i \in 1..Len(UpstreamFighters(1))}

DivisionIds == {"lightweight"}

\* response.json() of a successful GET of url at revision rev
OriginPayload(url, rev) ==
    IF rev = 0 THEN EmptyJson
    ELSE IF url = OCTAGON_API_BASE_URL \o "/fighters"
         THEN [kind |-> "dict", items |-> UpstreamFighters(rev)]
    ELSE IF url = OCTAGON_API_BASE_URL \o "/rankings"
         THEN [kind |-> "list", items |-> UpstreamDivisions(rev)]
    ELSE IF \E f \in FighterIds : url = OCTAGON_API_BASE_URL \o "/fighter/" \o f
         THEN LET f == CHOOSE g \in FighterIds : url = OCTAGON_API_BASE_URL \o "/fighter/" \o g
                  r == UpstreamFighters(rev)
              IN [kind |-> "dict", rev |-> rev,
                  fields |-> r[CHOOSE i \in 1..Len(r) : r[i].id = f]]
    ELSE [kind |-> "dict", rev |-> rev, url |-> url]

(***************************************************************************)
(* The lookups.                                                            *)
(***************************************************************************)
\* http_session.get(url, timeout=5); raise_for_status(); response.json()
HttpGet(e, url) ==
    IF e.resp[url] = "ok" THEN [ok |-> TRUE, data |-> OriginPayload(url, e.upstream)]
    ELSE [ok |-> FALSE, data |-> None]

\* CACHE[name].set(key, value)
CacheSet(st, e, name, key, value) ==
    Ev([st EXCEPT !.CACHE[name] = TTLCache_set(st.CACHE[name], key, value, e.now)],
       "local.set", key)

\* try: redis_client.setex(rkey, ttl, json.dumps(value))
\* except Exception: logger.error(...)
TrySetex(st, e, rkey, ttl, value) ==
    IF ~e.enabled THEN st
    ELSE IF e.rset
         THEN Ev([st EXCEPT !.redis_db =
                      redis_setex(st.redis_db, rkey, ttl, json_dumps(value), e.now)],
                 "redis.setex", rkey)
         ELSE Ev(st, "redis.setex failed", rkey)

\* api_rate_limiter.wait_if_needed() and the GET of url, inside the try
\* whose except clauses log Timeout, HTTPError, RequestException and
\* ValueError
FetchOrigin(st, e, url) ==
    LET waited == Ev([st EXCEPT !.api_rate_limiter =
                          RateLimiter_wait_if_needed(st.api_rate_limiter, e.now)],
                     "wait", url)
        r == HttpGet(e, url)
    IN [st |-> Ev(waited, IF r.ok THEN "origin" ELSE "origin failed", url),
        ok |-> r.ok, data |-> r.data]

\* the body shared by load_fighters_data and load_rankings_data: name is
\* the cache and its one key, rkey the Redis key, ttl the Redis TTL
load_data(st, e, name, rkey, url, ttl) ==
    LET cached == redis_get(st.redis_db, rkey, e.now)
        st1 == IF e.enabled THEN Ev(st, "redis.get", rkey) ELSE st
        g == TTLCache_get(st1.CACHE[name], name, e.now)
        st2 == Ev([st1 EXCEPT !.CACHE[name] = g.self], "local.get", name)
        f == FetchOrigin(st2, e, url)
    IN IF e.enabled /\ ~e.rget THEN Raised(Ev(st, "redis.get failed", rkey))
       ELSE IF e.enabled /\ Truthy(cached)
            THEN Returned(CacheSet(st1, e, name, name, json_loads(cached)), None)
       ELSE IF Truthy(g.ret) THEN Returned(st2, None)
       ELSE IF ~f.ok THEN Returned(f.st, None)
       ELSE Returned(TrySetex(CacheSet(f.st, e, name, name, f.data), e, rkey, ttl, f.data),
                     None)

\* load_fighters_data writing the roster to Redis with the TTL of the rankings
load_fighters_data_HourTTL(st, e) ==
    load_data(st, e, "fighters", "fighters_data", OCTAGON_API_BASE_URL \o "/fighters", 3600)

load_fighters_data(st, e) ==
    load_data(st, e, "fighters", "fighters_data", OCTAGON_API_BASE_URL \o "/fighters", 86400)

load_rankings_data(st, e) ==
    load_data(st, e, "rankings", "rankings_data", OCTAGON_API_BASE_URL \o "/rankings", 3600)

\* get_detail caching the failure of a fetch
get_detail_CacheFailure(st, e, name, id, rkey, url) ==
    LET cached == redis_get(st.redis_db, rkey, e.now)
        st1 == IF e.enabled THEN Ev(st, "redis.get", rkey) ELSE st
        g == TTLCache_get(st1.CACHE[name], id, e.now)
        st2 == Ev([st1 EXCEPT !.CACHE[name] = g.self], "local.get", id)
        f == FetchOrigin(st2, e, url)
    IN IF e.enabled /\ ~e.rget THEN Raised(Ev(st, "redis.get failed", rkey))
       ELSE IF e.enabled /\ Truthy(cached) THEN Returned(st1, json_loads(cached))
       ELSE IF Truthy(g.ret) THEN Returned(st2, g.ret)
       ELSE IF ~f.ok THEN Returned(CacheSet(f.st, e, name, id, EmptyJson), None)
       ELSE Returned(TrySetex(CacheSet(f.st, e, name, id, f.data), e, rkey, 3600, f.data),
                     f.data)

\* the body shared by get_fighter_data (after its retired-fighter branch)
\* and get_division_data
get_detail(st, e, name, id, rkey, url) ==
    LET cached == redis_get(st.redis_db, rkey, e.now)
        st1 == IF e.enabled THEN Ev(st, "redis.get", rkey) ELSE st
        g == TTLCache_get(st1.CACHE[name], id, e.now)
        st2 == Ev([st1 EXCEPT !.CACHE[name] = g.self], "local.get", id)
        f == FetchOrigin(st2, e, url)
    IN IF e.enabled /\ ~e.rget THEN Raised(Ev(st, "redis.get failed", rkey))
       ELSE IF e.enabled /\ Truthy(cached) THEN Returned(st1, json_loads(cached))
       ELSE IF Truthy(g.ret) THEN Returned(st2, g.ret)
       ELSE IF ~f.ok THEN Returned(f.st, None)
       ELSE Returned(TrySetex(CacheSet(f.st, e, name, id, f.data), e, rkey, 3600, f.data),
                     f.data)

RetiredKeys == {RETIRED_FIGHTERS[i].key : i \in 1..Len(RETIRED_FIGHTERS)}

Retired(key) == RETIRED_FIGHTERS[CHOOSE i \in 1..Len(RETIRED_FIGHTERS) : RETIRED_FIGHTERS[i].key = key]

get_fighter_data(st, e, fighter_id) ==
    IF StartsWith(fighter_id, "retired:")
    THEN LET retired_id == SubSeq(fighter_id, Len("retired:") + 1, Len(fighter_id))
         IN IF retired_id \in RetiredKeys
            THEN Returned(st, [kind |-> "dict", fields |-> Retired(retired_id)])
            ELSE Returned(st, None)
    ELSE get_detail(st, e, "fighter_details", fighter_id, "fighter:" \o fighter_id,
                    OCTAGON_API_BASE_URL \o "/fighter/" \o fighter_id)

get_division_data(st, e, division_id) ==
    get_detail(st, e, "division_details", division_id, "division:" \o division_id,
               OCTAGON_API_BASE_URL \o "/division/" \o division_id)

(***************************************************************************)
(* float(text) for the decimal notation the fighter records use, as a      *)
(* number of hundredths; any other text raises ValueError (ok = FALSE).    *)
(***************************************************************************)
Digits == "0123456789"

IsDigit(c) == \E i \in 1..10 : CharAt(Digits, i) = c

DigitValue(c) == (CHOOSE i \in 1..10 : CharAt(Digits, i) = c) - 1

AllDigits(s) == s # "" /\ \A i \in 1..Len(s) : IsDigit(CharAt(s, i))

RECURSIVE ToNat(_)
ToNat(s) == IF s = "" THEN 0 ELSE 10 * ToNat(SubSeq(s, 1, Len(s) - 1)) + DigitValue(CharAt(s, Len(s)))

ParseFloat(s) ==
    IF AllDigits(s) THEN [ok |-> TRUE, val |-> 100 * ToNat(s)]
    ELSE IF \E i \in 2..(Len(s) - 1) :
                /\ CharAt(s, i) = "."
                /\ AllDigits(SubSeq(s, 1, i - 1))
                /\ AllDigits(SubSeq(s, i + 1, Len(s)))
                /\ Len(s) - i <= 2
         THEN LET i == CHOOSE j \in 2..(Len(s) - 1) : CharAt(s, j) = "."
                  frac == SubSeq(s, i + 1, Len(s))
              IN [ok |-> TRUE,
                  val |-> 100 * ToNat(SubSeq(s, 1, i - 1))
                          + (IF Len(frac) = 1 THEN 10 * ToNat(frac) ELSE ToNat(frac))]
         ELSE [ok |-> FALSE, val |-> 0]

\* try: x = float(str(text).replace('"', ''))  except (ValueError, TypeError): x = 0
SafeFloat(text) ==
    LET r == ParseFloat(Replace(text, "\"", "")) IN IF r.ok THEN r.val ELSE 0

\* try: weight = float(text or 0)  except (ValueError, TypeError): weight = 0
SafeFloatPlain(text) ==
    LET r == ParseFloat(text) IN IF r.ok THEN r.val ELSE 0

\* the fighter_info entry of the combined list
FighterInfo(id, d) ==
    [id |-> id, name |-> d.name, height |-> SafeFloat(d.height), weight |-> SafeFloatPlain(d.weight),
     reach |-> SafeFloat(d.reach), legReach |-> SafeFloat(d.legReach), status |-> d.status,
     category |-> d.category, fightingStyle |-> d.fightingStyle]

RECURSIVE AddApiFighters(_, _, _, _, _)
\* for fighter_id, fighter_data in fighters_data.items(): the entries from
\* the i-th on, acc being the list built so far
AddApiFighters(st, e, roster, i, acc) ==
    IF i > Len(roster) THEN Returned(st, acc)
    ELSE LET r == get_fighter_data(st, e, roster[i].id)
         IN IF r.raised THEN r
            ELSE AddApiFighters(r.st, e, roster, i + 1,
                     IF Truthy(r.ret)
                     THEN Append(acc, FighterInfo(roster[i].id, r.ret.fields))
                     ELSE acc)

RetiredInfos ==
    [i \in 1..Len(RETIRED_FIGHTERS) |-> FighterInfo(RETIRED_FIGHTERS[i].key, RETIRED_FIGHTERS[i])]

get_all_fighters_data(st, e) ==
    LET cached == redis_get(st.redis_db, "all_fighters_data", e.now)
        st1 == IF e.enabled THEN Ev(st, "redis.get", "all_fighters_data") ELSE st
        l == load_fighters_data(st1, e)
        g == TTLCache_get(l.st.CACHE["fighters"], "fighters", e.now)
        st2 == [l.st EXCEPT !.CACHE["fighters"] = g.self]
        a == AddApiFighters(st2, e, g.ret.items, 1, <<>>)
        all_fighters == [kind |-> "list", items |-> a.ret \o RetiredInfos]
    IN IF Truthy(st.CACHE["all_fighters_data"])
       THEN Returned(Ev(st, "view", "all_fighters_data"), st.CACHE["all_fighters_data"])
       ELSE IF e.enabled /\ ~e.rget
            THEN Raised(Ev(st, "redis.get failed", "all_fighters_data"))
       ELSE IF e.enabled /\ Truthy(cached)
            THEN Returned([st1 EXCEPT !.CACHE["all_fighters_data"] = json_loads(cached)],
                          json_loads(cached))
       ELSE IF l.raised THEN l
       ELSE IF ~Truthy(g.ret) THEN Returned(st2, EmptyJson)
       ELSE IF a.raised THEN a
       ELSE Returned(TrySetex([a.st EXCEPT !.CACHE["all_fighters_data"] = all_fighters],
                              e, "all_fighters_data", 3600, all_fighters),
                     all_fighters)

RECURSIVE AddDivisions(_, _, _)
\* for division in rankings_data: the entries from the i-th on
AddDivisions(mapping, divisions, i) ==
    IF i > Len(divisions) THEN mapping
    ELSE LET category_name == Lower(divisions[i].categoryName)
             division_id == divisions[i].id
             m1 == ODSet(mapping, category_name, division_id)
             m2 == ODSet(m1, Replace(category_name, " ", ""), division_id)
             m3 == IF Contains("weight", category_name)
                   THEN ODSet(m2, Strip(Replace(category_name, "weight", "")), division_id)
                   ELSE m2
         IN AddDivisions(IF category_name # "" /\ division_id # "" THEN m3 ELSE mapping,
                         divisions, i + 1)

build_division_mapping(st, e) ==
    LET l == load_rankings_data(st, e)
        g == TTLCache_get(l.st.CACHE["rankings"], "rankings", e.now)
        st1 == [l.st EXCEPT !.CACHE["rankings"] = g.self]
        division_mapping ==
            [kind |-> "dict",
             items |-> IF Truthy(g.ret)
                       THEN AddDivisions(WEIGHT_CLASS_MAPPING, g.ret.items, 1)
                       ELSE WEIGHT_CLASS_MAPPING]
    IN IF Truthy(st.CACHE["division_mapping"])
       THEN Returned(Ev(st, "view", "division_mapping"), st.CACHE["division_mapping"])
       ELSE IF l.raised THEN l
       ELSE Returned([st1 EXCEPT !.CACHE["division_mapping"] = division_mapping],
                     division_mapping)

\* for cache_key in CACHE: clear the TTLCache, or set the entry to None
ClearMemory(cache) ==
    [k \in DOMAIN cache |->
        IF k \in {"all_fighters_data", "division_mapping"} THEN None
        ELSE TTLCache_clear(cache[k])]

ADMIN_KEY == "your-secret-admin-key"

\* the /clear-cache endpoint; rflush: Redis answers flushdb()
clear_cache(st, e, auth_header, rflush) ==
    IF auth_header # ADMIN_KEY THEN Returned(st, [kind |-> "response", status |-> 401])
    ELSE Returned(
           IF ~e.enabled THEN [st EXCEPT !.CACHE = ClearMemory(st.CACHE)]
           ELSE IF rflush
                THEN Ev([st EXCEPT !.CACHE = ClearMemory(st.CACHE), !.redis_db = EmptyDict],
                        "redis.flushdb", "")
                ELSE Ev([st EXCEPT !.CACHE = ClearMemory(st.CACHE)], "redis.flushdb failed", ""),
           [kind |-> "response", status |-> 200])

(***************************************************************************)
(* difflib.SequenceMatcher(None, a, b).ratio(), with no junk: twice the    *)
(* number of matched characters over the total length.  A score is the     *)
(* fraction n/d, so that scores are compared exactly.                      *)
(***************************************************************************)
RECURSIVE RunLen(_, _, _, _)
\* the length of the longest common run that starts at a[i] and b[j]
RunLen(a, b, i, j) ==
    IF i > Len(a) \/ j > Len(b) \/ CharAt(a, i) # CharAt(b, j) THEN 0
    ELSE 1 + RunLen(a, b, i + 1, j + 1)

Max(S) == CHOOSE x \in S : \A y \in S : y <= x

\* find_longest_match: the longest matching block, of those the one that
\* starts earliest in a, and of those the one that starts earliest in b
find_longest_match(a, b) ==
    LET pos == (1..Len(a)) \X (1..Len(b))
        run == [p \in pos |-> RunLen(a, b, p[1], p[2])]
        size == Max({run[p] : p \in pos} \cup {0})
        hits == {p \in pos : run[p] = size}
        first == CHOOSE p \in hits :
                     \A q \in hits : p[1] < q[1] \/ (p[1] = q[1] /\ p[2] <= q[2])
    IN IF size = 0 THEN [i |-> 1, j |-> 1, size |-> 0]
       ELSE [i |-> first[1], j |-> first[2], size |-> size]

RECURSIVE Matched(_, _)
\* the sum of the sizes of get_matching_blocks()
Matched(a, b) ==
    IF a = "" \/ b = "" THEN 0
    ELSE LET m == find_longest_match(a, b)
         IN IF m.size = 0 THEN 0
            ELSE m.size
                 + Matched(SubSeq(a, 1, m.i - 1), SubSeq(b, 1, m.j - 1))
                 + Matched(SubSeq(a, m.i + m.size, Len(a)), SubSeq(b, m.j + m.size, Len(b)))

Frac(n, d) == [n |-> n, d |-> d]

ratio(a, b) ==
    IF Len(a) + Len(b) = 0 THEN Frac(1, 1) ELSE Frac(2 * Matched(a, b), Len(a) + Len(b))

FracLess(x, y) == x.n * y.d < y.n * x.d

FracMax(x, y) == IF FracLess(x, y) THEN y ELSE x

FracAdd(x, y) == Frac(x.n * y.d + y.n * x.d, x.d * y.d)

(***************************************************************************)
(* resolve_fighter_name.  name_map is the function's attribute of that     *)
(* name, None while the function has no such attribute; here it is a field *)
(* of the state the operator transforms.  A returned id is Str(id).        *)
(***************************************************************************)
Str(s) == [kind |-> "str", s |-> s]

\* the map the first call builds: the nicknames, then the standalone last
\* names, then the retired fighters, a later assignment to a key replacing
\* an earlier one
InitialNameMap ==
    [k \in {FIGHTER_NICKNAMES[i][1] : i \in 1..Len(FIGHTER_NICKNAMES)}
           \cup {STANDALONE_LAST_NAMES[i][1] : i \in 1..Len(STANDALONE_LAST_NAMES)}
           \cup RetiredKeys |->
        IF k \in RetiredKeys THEN "retired:" \o k
        ELSE IF ODHas(STANDALONE_LAST_NAMES, k) THEN ODGet(STANDALONE_LAST_NAMES, k)
        ELSE ODGet(FIGHTER_NICKNAMES, k)]

\* the first nickname that occurs in the name replaces it by its fighter
NicknameRewrite(name_lower) ==
    IF \E i \in 1..Len(FIGHTER_NICKNAMES) : Contains(FIGHTER_NICKNAMES[i][1], name_lower)
    THEN LET i == CHOOSE k \in 1..Len(FIGHTER_NICKNAMES) :
                      /\ Contains(FIGHTER_NICKNAMES[k][1], name_lower)
                      /\ \A l \in 1..(k - 1) : ~Contains(FIGHTER_NICKNAMES[l][1], name_lower)
         IN FIGHTER_NICKNAMES[i][2]
    ELSE name_lower

RetiredMatches(name_lower) ==
    {i \in 1..Len(RETIRED_FIGHTERS) :
        \/ Contains(RETIRED_FIGHTERS[i].key, name_lower)
        \/ Contains(name_lower, RETIRED_FIGHTERS[i].key)}

Min(S) == CHOOSE x \in S : \A y \in S : x <= y

\* for fighter_id, details in fighters_data.items():
\*     if details name: name_map[name.lower()] = fighter_id
\* the last fighter of a name is the one the map keeps
AddActive(m, roster) ==
    LET named(k) == {i \in 1..Len(roster) : roster[i].name # "" /\ Lower(roster[i].name) = k}
    IN [k \in DOMAIN m \cup {Lower(roster[i].name) : i \in {n \in 1..Len(roster) : roster[n].name # ""}} |->
           IF named(k) # {} THEN roster[Max(named(k))].id ELSE m[k]]

\* the styles that occur in the name, by their place in FIGHTING_STYLES
StylesIn(name_lower) ==
    {i \in 1..Len(FIGHTING_STYLES) : Contains(FIGHTING_STYLES[i], name_lower)}

\* lines 811-829: the score of one fighter for the name: the similarity of
\* the names, or 0.8 for a nickname that contains the query or is contained
\* in it, plus half of 0.3 for the style mentioned
CombinedScore(f, name_lower, mentioned_style) ==
    LET nickname == Lower(f.nickname)
        name_score == ratio(name_lower, Lower(f.name))
        nickname_score ==
            IF nickname # "" /\ (Contains(nickname, name_lower) \/ Contains(name_lower, nickname))
            THEN Frac(8, 10) ELSE Frac(0, 1)
        style_score ==
            IF mentioned_style # "" /\ Contains(mentioned_style, Lower(f.fightingStyle))
            THEN Frac(3, 10) ELSE Frac(0, 1)
    IN FracAdd(FracMax(name_score, nickname_score), Frac(style_score.n * 5, style_score.d * 10))

\* the entries one fighter adds to matches: the combined score if it is
\* above the threshold, and the score of the first part of the fighter's
\* name that the query equals or, being longer than 3, is contained in
MatchesOf_LowThreshold(f, name_lower, mentioned_style) ==
    LET combined_score == CombinedScore(f, name_lower, mentioned_style)
        name_parts == Split(Lower(f.name))
        hits == {k \in 1..Len(name_parts) :
                    \/ name_lower = name_parts[k]
                    \/ Len(name_lower) > 3 /\ Contains(name_lower, name_parts[k])}
    IN (IF FracLess(Frac(3, 10), combined_score)
        THEN <<[id |-> f.id, score |-> combined_score]>> ELSE <<>>)
       \o (IF hits # {}
           THEN <<[id |-> f.id, score |-> ratio(name_lower, name_parts[Min(hits)])]>>
           ELSE <<>>)

MatchesOf(f, name_lower, mentioned_style) ==
    LET combined_score == CombinedScore(f, name_lower, mentioned_style)
        name_parts == Split(Lower(f.name))
        hits == {k \in 1..Len(name_parts) :
                    \/ name_lower = name_parts[k]
                    \/ Len(name_lower) > 3 /\ Contains(name_lower, name_parts[k])}
    IN (IF FracLess(Frac(6, 10), combined_score)
        THEN <<[id |-> f.id, score |-> combined_score]>> ELSE <<>>)
       \o (IF hits # {}
           THEN <<[id |-> f.id, score |-> ratio(name_lower, name_parts[Min(hits)])]>>
           ELSE <<>>)

RECURSIVE AllMatches(_, _, _, _)
AllMatches(roster, i, name_lower, mentioned_style) ==
    IF i > Len(roster) THEN <<>>
    ELSE MatchesOf(roster[i], name_lower, mentioned_style)
         \o AllMatches(roster, i + 1, name_lower, mentioned_style)

\* matches.sort(key=score, reverse=True); matches[0]: the sort is stable, so
\* the first of the matches with the highest score
BestMatch(matches) ==
    matches[Min({i \in 1..Len(matches) :
                    \A j \in 1..Len(matches) : ~FracLess(matches[i].score, matches[j].score)})]

\* lines 800-849: the exact match, else the best of the scored matches; the
\* id found is memoized under the name as it is after the style was removed
Memoize(st, name_lower, id) ==
    Returned([Ev(st, "scan", name_lower) EXCEPT !.name_map = DictSet(st.name_map, name_lower, id)],
             Str(id))

BestOf(st, name_lower, matches) ==
    IF matches = <<>> THEN Returned(Ev(st, "scan", name_lower), None)
    ELSE Memoize(st, name_lower, BestMatch(matches).id)

MatchRoster(st, roster, name_lower, mentioned_style) ==
    LET exact == {i \in 1..Len(roster) : Lower(roster[i].name) = name_lower}
    IN IF exact # {} THEN Memoize(st, name_lower, roster[Min(exact)].id)
       ELSE BestOf(st, name_lower, AllMatches(roster, 1, name_lower, mentioned_style))

\* lines 791-798: the first style the name mentions, and the name without it
StyleOf(name_lower) ==
    IF StylesIn(name_lower) = {} THEN "" ELSE FIGHTING_STYLES[Min(StylesIn(name_lower))]

StripStyle(name_lower) ==
    IF StylesIn(name_lower) = {} THEN name_lower
    ELSE Strip(Replace(name_lower, StyleOf(name_lower), ""))

\* lines 780-798: the roster's names are added to the map while the map is
\* small, and the first style mentioned is removed from the name
ScanRoster(st, g, name_lower) ==
    IF ~Truthy(g.ret) THEN Returned([st EXCEPT !.CACHE["fighters"] = g.self], None)
    ELSE MatchRoster(
            [st EXCEPT !.CACHE["fighters"] = g.self,
                       !.name_map =
                           IF Cardinality(DOMAIN st.name_map)
                                < Len(FIGHTER_NICKNAMES) + Len(STANDALONE_LAST_NAMES)
                                  + Len(RETIRED_FIGHTERS) + 10
                           THEN AddActive(st.name_map, g.ret.items)
                           ELSE st.name_map],
            g.ret.items, StripStyle(name_lower), StyleOf(name_lower))

\* lines 776-778: l is what load_fighters_data() did
WithRoster(l, e, name_lower) ==
    IF l.raised THEN l
    ELSE ScanRoster(l.st, TTLCache_get(l.st.CACHE["fighters"], "fighters", e.now), name_lower)

\* lines 767-777: the map, then the retired fighters, then the roster
LookUp(st, e, name_lower) ==
    IF name_lower \in DOMAIN st.name_map
    THEN Returned(Ev(st, "name_map", name_lower), Str(st.name_map[name_lower]))
    ELSE IF RetiredMatches(name_lower) # {}
         THEN Returned(st, Str("retired:" \o RETIRED_FIGHTERS[Min(RetiredMatches(name_lower))].key))
    ELSE WithRoster(load_fighters_data(st, e), e, name_lower)

resolve_fighter_name(st, e, name) ==
    IF name = "" THEN Returned(st, None)
    ELSE LookUp(IF st.name_map = None THEN [st EXCEPT !.name_map = InitialNameMap] ELSE st,
                e, NicknameRewrite(Strip(Lower(name))))

(***************************************************************************)
(* Regular expressions (module re).  A pattern is the sequence of its      *)
(* items; an item is a literal, a greedy repetition of a character class,  *)
(* an alternation (tried in order; x? is the alternation of x and the      *)
(* empty pattern), the start or end of a group, the end of the text or a   *)
(* word boundary.  Matching backtracks as re does: the first way to match  *)
(* the rest of the pattern decides.                                        *)
(***************************************************************************)
Lit(s) == [k |-> "lit", s |-> s, cls |-> {}, min |-> 0, alts |-> <<>>, n |-> 0]

Rep(cls, min) == [k |-> "rep", s |-> "", cls |-> cls, min |-> min, alts |-> <<>>, n |-> 0]

Alt(alts) == [k |-> "alt", s |-> "", cls |-> {}, min |-> 0, alts |-> alts, n |-> 0]

Opt(p) == Alt(<<p, <<>>>>)

Group(n, p) ==
    <<[k |-> "open", s |-> "", cls |-> {}, min |-> 0, alts |-> <<>>, n |-> n]>> \o p
    \o <<[k |-> "close", s |-> "", cls |-> {}, min |-> 0, alts |-> <<>>, n |-> n]>>

\* $
EndOfText == [k |-> "end", s |-> "", cls |-> {}, min |-> 0, alts |-> <<>>, n |-> 0]

\* \b
WordBoundary == [k |-> "wordb", s |-> "", cls |-> {}, min |-> 0, alts |-> <<>>, n |-> 0]

\* (?:w1|w2|...)
Words(ws) == Alt([i \in 1..Len(ws) |-> <<Lit(ws[i])>>])

CharsOf(s) == {CharAt(s, i) : i \in 1..Len(s)}

\* [a-zA-Z]; the text matched is printable ASCII
Letters == CharsOf(Upper) \cup CharsOf(Lowercase)

\* \d
DigitChars == CharsOf(Digits)

\* \s
SpaceChars == {" "}

\* \w
WordChars == Letters \cup DigitChars \cup {"_"}

\* [a-zA-Z'\s]
NameChars == Letters \cup {"'"} \cup SpaceChars

\* [\w\s']
SpanChars == WordChars \cup SpaceChars \cup {"'"}

RECURSIVE RunOf(_, _, _)
\* the number of characters of the class from position pos on
RunOf(cls, s, pos) ==
    IF pos <= Len(s) /\ CharAt(s, pos) \in cls THEN 1 + RunOf(cls, s, pos + 1) ELSE 0

NoMatch == [ok |-> FALSE, start |-> 0, end |-> 0, g |-> <<>>]

IsWordAt(s, i) == i >= 1 /\ i <= Len(s) /\ CharAt(s, i) \in WordChars

RECURSIVE MatchHere(_, _, _, _)
RECURSIVE FirstAlt(_, _, _, _, _, _)
RECURSIVE Longest(_, _, _, _, _, _)
\* the first alternative, from the i-th on, with which the rest matches
FirstAlt(alts, i, rest, s, pos, g) ==
    IF i > Len(alts) THEN NoMatch
    ELSE LET m == MatchHere(alts[i] \o rest, s, pos, g)
         IN IF m.ok THEN m ELSE FirstAlt(alts, i + 1, rest, s, pos, g)

\* the longest repetition, of at most n characters, after which the rest matches
Longest(h, n, rest, s, pos, g) ==
    IF n < h.min THEN NoMatch
    ELSE LET m == MatchHere(rest, s, pos + n, g)
         IN IF m.ok THEN m ELSE Longest(h, n - 1, rest, s, pos, g)

\* pattern.match at position pos; g[n] is the span of group n
MatchHere(p, s, pos, g) ==
    IF p = <<>> THEN [ok |-> TRUE, start |-> 0, end |-> pos, g |-> g]
    ELSE LET h == Head(p)
             rest == Tail(p)
         IN CASE h.k = "lit" ->
                    IF MatchAt(h.s, s, pos) THEN MatchHere(rest, s, pos + Len(h.s), g)
                    ELSE NoMatch
              [] h.k = "rep" -> Longest(h, RunOf(h.cls, s, pos), rest, s, pos, g)
              [] h.k = "alt" -> FirstAlt(h.alts, 1, rest, s, pos, g)
              [] h.k = "open" -> MatchHere(rest, s, pos, [g EXCEPT ![h.n] = <<pos, pos>>])
              [] h.k = "close" -> MatchHere(rest, s, pos, [g EXCEPT ![h.n] = <<g[h.n][1], pos>>])
              [] h.k = "end" -> IF pos = Len(s) + 1 THEN MatchHere(rest, s, pos, g) ELSE NoMatch
              [] h.k = "wordb" ->
                    IF IsWordAt(s, pos - 1) # IsWordAt(s, pos) THEN MatchHere(rest, s, pos, g)
                    ELSE NoMatch

RECURSIVE SearchFrom(_, _, _)
SearchFrom(p, s, pos) ==
    IF pos > Len(s) + 1 THEN NoMatch
    ELSE LET m == MatchHere(p, s, pos, [n \in 1..3 |-> <<0, 0>>])
         IN IF m.ok THEN [m EXCEPT !.start = pos] ELSE SearchFrom(p, s, pos + 1)

\* a match holds every literal of the pattern and, of an alternation whose
\* alternatives all begin with a literal, one of those literals: a text
\* that lacks one of them has no match
Feasible(p, s) ==
    \A i \in 1..Len(p) :
        /\ p[i].k = "lit" => Contains(p[i].s, s)
        /\ (p[i].k = "alt" /\ \A a \in 1..Len(p[i].alts) :
                                  p[i].alts[a] # <<>> /\ p[i].alts[a][1].k = "lit")
              => \E a \in 1..Len(p[i].alts) : Contains(p[i].alts[a][1].s, s)

\* pattern.search(s)
Search(p, s) == IF Feasible(p, s) THEN SearchFrom(p, s, 1) ELSE NoMatch

\* match.group(n)
GroupText(m, s, n) == SubSeq(s, m.g[n][1], m.g[n][2] - 1)

(***************************************************************************)
(* The compiled patterns.                                                  *)
(***************************************************************************)
ChampionWords == <<"champion", "champ", "title", "belt">>

CHAMPION_PATTERNS ==
    << <<Words(<<"who", "what", "which", "whos", "who's">>), Lit(" "), Words(<<"is", "are">>),
         Lit(" "), Opt(<<Lit("the")>>), Rep(SpaceChars, 0)>>
       \o Group(1, <<Rep(NameChars, 1)>>)
       \o <<Rep(SpaceChars, 0), Words(ChampionWords), Opt(<<Lit("ion")>>), Opt(<<Lit("holder")>>)>>,
       Group(1, <<Rep(NameChars, 1)>>)
       \o <<Rep(SpaceChars, 0), Words(ChampionWords), Opt(<<Lit("ion")>>), Opt(<<Lit("holder")>>)>> >>

RANKING_PATTERNS ==
    << Group(1, <<Rep(NameChars, 1)>>) \o <<Rep(SpaceChars, 0), Words(<<"ranking", "rankings">>)>>,
       <<Words(<<"ranking", "rankings">>), Opt(<<Rep(SpaceChars, 1), Lit("for")>>), Rep(SpaceChars, 1)>>
       \o Group(1, <<Rep(NameChars, 1)>>) >>

RECORD_PATTERNS ==
    << <<Words(<<"record", "stats">>), Lit(" of ")>> \o Group(1, <<Rep(NameChars, 1)>>),
       Group(1, <<Rep(NameChars, 1)>>)
       \o <<Opt(<<Lit("'s")>>), Lit(" "), Words(<<"record", "stats">>)>>,
       <<Words(<<"what is", "how good is">>), Lit(" ")>> \o Group(1, <<Rep(NameChars, 1)>>)
       \o <<Opt(<<Lit("'s")>>), Lit(" record")>> >>

FIGHTER_PATTERNS ==
    << <<Words(<<"who", "what", "which", "tell me about", "info on", "information about">>),
         Rep(SpaceChars, 1), Opt(<<Words(<<"is", "are", "on", "about">>)>>), Rep(SpaceChars, 0)>>
       \o Group(1, <<Rep(NameChars, 1)>>)
       \o <<Alt(<< <<Lit("?")>>, <<EndOfText>> >>)>>,
       Group(1, <<Rep(NameChars, 1)>>)
       \o <<Opt(<<Lit("'s")>>), Rep(SpaceChars, 0),
            Words(<<"record", "stats", "statistics", "profile", "information", "details">>)>> >>

P4P_PATTERNS ==
    << <<Opt(<<Alt(<< <<Lit("men"), Opt(<<Lit("'s")>>)>>, <<Lit("male")>> >>)>>),
         Rep(SpaceChars, 0), Lit("pound"), Rep(SpaceChars, 0), Words(<<"for", "4">>),
         Rep(SpaceChars, 0), Lit("pound"), Rep(SpaceChars, 0),
         Opt(<<Words(<<"ranking", "rankings">>)>>)>>,
       <<Lit("p4p"), Rep(SpaceChars, 0), Opt(<<Words(<<"ranking", "rankings">>)>>)>>,
       <<Lit("pound"), Rep(SpaceChars, 0), Words(<<"for", "4">>), Rep(SpaceChars, 0),
         Lit("pound"), Rep(SpaceChars, 0), Opt(<<Words(<<"ranking", "rankings">>)>>)>> >>

COMPARISON_PATTERNS ==
    << <<Opt(<<Words(<<"who is ", "who's ", "which is ", "which one is ">>)>>)>>
       \o Group(1, <<Words(<<"taller", "shorter", "heavier", "lighter", "bigger", "stronger",
                             "better">>)>>)
       \o <<Words(<<" ", ",">>), Opt(<<Lit("between ")>>)>>
       \o Group(2, <<Rep(SpanChars, 1)>>)
       \o <<Lit(" "), Alt(<< <<Lit("or")>>, <<Lit("and")>>, <<Lit("vs"), Opt(<<Lit(".")>>)>> >>),
            Lit(" ")>>
       \o Group(3, <<Rep(SpanChars, 1)>>),
       <<Words(<<"compare", "vs", "versus">>), Lit(" ")>>
       \o Group(1, <<Rep(SpanChars, 1)>>)
       \o <<Lit(" "), Alt(<< <<Lit("and")>>, <<Lit("vs"), Opt(<<Lit(".")>>)>> >>), Lit(" ")>>
       \o Group(2, <<Rep(SpanChars, 1)>>),
       Group(1, <<Rep(SpanChars, 1)>>)
       \o <<Lit(" "),
            Alt(<< <<Lit("vs"), Opt(<<Lit(".")>>)>>, <<Lit("versus")>>, <<Lit("compared to")>>,
                   <<Lit("against")>> >>),
            Lit(" ")>>
       \o Group(2, <<Rep(SpanChars, 1)>>) >>

WEIGHT_CLASS_PATTERNS ==
    << Group(1, <<Rep(DigitChars, 1)>>) \o <<Rep(SpaceChars, 0), Words(<<"pound", "lb", "lbs">>)>>,
       Group(1, <<Rep(DigitChars, 1)>>) \o <<Rep(SpaceChars, 0), Lit("kg")>> >>

(***************************************************************************)
(* difflib.get_close_matches(word, possibilities, n=1, cutoff): the        *)
(* possibility x with the greatest (ratio(x, word), x) among those whose   *)
(* ratio reaches the cutoff; real_quick_ratio and quick_ratio, two upper   *)
(* bounds of ratio, are tested first.                                      *)
(***************************************************************************)
\* the printable ASCII characters, but the grave accent, in the order of
\* their codes
Ascii ==
    " !\"#$%&'()*+,-./0123456789:;<=>?@ABCDEFGHIJKLMNOPQRSTUVWXYZ[\\]^_abcdefghijklmnopqrstuvwxyz{|}~"

\* the place of c in that order
Ord(c) == CHOOSE i \in 1..Len(Ascii) : CharAt(Ascii, i) = c

RECURSIVE StrLess(_, _)
\* a < b for str
StrLess(a, b) ==
    IF b = "" THEN FALSE
    ELSE IF a = "" THEN TRUE
    ELSE IF CharAt(a, 1) = CharAt(b, 1) THEN StrLess(SubSeq(a, 2, Len(a)), SubSeq(b, 2, Len(b)))
    ELSE Ord(CharAt(a, 1)) < Ord(CharAt(b, 1))

\* real_quick_ratio of sequences of these lengths
real_quick_ratio(la, lb) ==
    IF la + lb = 0 THEN Frac(1, 1) ELSE Frac(2 * (IF la < lb THEN la ELSE lb), la + lb)

\* the number of places of s that hold c
CountOf(c, s) == Cardinality({i \in 1..Len(s) : CharAt(s, i) = c})

RECURSIVE SumOver(_, _, _)
\* the sum over the characters of S of the lesser of their counts in a and b
SumOver(S, a, b) ==
    IF S = {} THEN 0
    ELSE LET c == CHOOSE x \in S : TRUE
         IN (IF CountOf(c, a) < CountOf(c, b) THEN CountOf(c, a) ELSE CountOf(c, b))
            + SumOver(S \ {c}, a, b)

\* quick_ratio: the characters the two have in common, wherever they are
quick_ratio(a, b) ==
    IF Len(a) + Len(b) = 0 THEN Frac(1, 1)
    ELSE Frac(2 * SumOver(CharsOf(a), a, b), Len(a) + Len(b))

\* the result list: empty, or the one best possibility
get_close_matches(word, possibilities, cutoff) ==
    LET near == {x \in possibilities :
                    /\ ~FracLess(real_quick_ratio(Len(x), Len(word)), cutoff)
                    /\ ~FracLess(quick_ratio(x, word), cutoff)}
        score == [x \in near |-> ratio(x, word)]
        close == {x \in near : ~FracLess(score[x], cutoff)}
        best == CHOOSE x \in close :
                    \A y \in close \ {x} :
                        \/ FracLess(score[y], score[x])
                        \/ ~FracLess(score[x], score[y]) /\ StrLess(y, x)
    IN IF close = {} THEN <<>> ELSE <<best>>

(***************************************************************************)
(* The division normalizer and the weight-class identifier.  A division    *)
(* mapping is the sequence of its <<name, id>> entries in insertion order. *)
(***************************************************************************)
ODKeys(d) == {d[i][1] : i \in 1..Len(d)}

\* lines 652-681, on the mapping build_division_mapping() returned
normalize_with(mapping, division_name) ==
    LET lower == Lower(division_name)
        search_name == Strip(lower)
        partial == {i \in 1..Len(mapping) :
                       Contains(search_name, mapping[i][1]) \/ Contains(mapping[i][1], search_name)}
        matches == get_close_matches(search_name, ODKeys(mapping), Frac(7, 10))
    IN IF Contains("pound", lower) \/ Contains("p4p", lower)
       THEN IF Contains("women", lower) \/ Contains("female", lower)
            THEN Str("womens-pound-for-pound-top-rank")
            ELSE Str("mens-pound-for-pound-top-rank")
       ELSE IF Contains("light", search_name) /\ Contains("heavy", search_name)
            THEN Str("light-heavyweight")
       ELSE IF ODHas(mapping, search_name) THEN Str(ODGet(mapping, search_name))
       ELSE IF partial # {} THEN Str(mapping[Min(partial)][2])
       ELSE IF matches # <<>> THEN Str(ODGet(mapping, matches[1]))
       ELSE None

\* b is what build_division_mapping() did
normalize_built(b, division_name) ==
    IF b.raised THEN b ELSE Returned(b.st, normalize_with(b.ret.items, division_name))

normalize_division_name(st, e, division_name) ==
    IF division_name = "" THEN Returned(st, None)
    ELSE normalize_built(build_division_mapping(st, e), division_name)

\* the weight class of a number of pounds
WeightClassOf(weight_num) ==
    IF weight_num <= 125 THEN "flyweight"
    ELSE IF weight_num <= 135 THEN "bantamweight"
    ELSE IF weight_num <= 145 THEN "featherweight"
    ELSE IF weight_num <= 155 THEN "lightweight"
    ELSE IF weight_num <= 170 THEN "welterweight"
    ELSE IF weight_num <= 185 THEN "middleweight"
    ELSE IF weight_num <= 205 THEN "light-heavyweight"
    ELSE "heavyweight"

\* identify_with rounding the pounds of a kilogram value up
identify_with_RoundUp(mapping, weight_mention) ==
    LET lb == Search(WEIGHT_CLASS_PATTERNS[1], weight_mention)
        kg == Search(WEIGHT_CLASS_PATTERNS[2], weight_mention)
        matches == get_close_matches(weight_mention, ODKeys(mapping), Frac(6, 10))
    IN IF ODHas(mapping, weight_mention) THEN Str(ODGet(mapping, weight_mention))
       ELSE IF lb.ok THEN Str(WeightClassOf(ToNat(GroupText(lb, weight_mention, 1))))
       ELSE IF kg.ok
            THEN Str(WeightClassOf((ToNat(GroupText(kg, weight_mention, 1)) * 220462 + 99999)
                                   \div 100000))
       ELSE IF matches # <<>> THEN Str(ODGet(mapping, matches[1]))
       ELSE None

\* lines 693-731, on the mapping build_division_mapping() returned; the
\* pattern of pounds is searched before the pattern of kilograms, and
\* int(weight_num * 2.20462) is the product without its fraction
identify_with(mapping, weight_mention) ==
    LET lb == Search(WEIGHT_CLASS_PATTERNS[1], weight_mention)
        kg == Search(WEIGHT_CLASS_PATTERNS[2], weight_mention)
        matches == get_close_matches(weight_mention, ODKeys(mapping), Frac(6, 10))
    IN IF ODHas(mapping, weight_mention) THEN Str(ODGet(mapping, weight_mention))
       ELSE IF lb.ok THEN Str(WeightClassOf(ToNat(GroupText(lb, weight_mention, 1))))
       ELSE IF kg.ok
            THEN Str(WeightClassOf((ToNat(GroupText(kg, weight_mention, 1)) * 220462) \div 100000))
       ELSE IF matches # <<>> THEN Str(ODGet(mapping, matches[1]))
       ELSE None

identify_built(b, weight_mention) ==
    IF b.raised THEN b ELSE Returned(b.st, identify_with(b.ret.items, weight_mention))

identify_weight_class(st, e, weight_mention) ==
    IF weight_mention = "" THEN Returned(st, None)
    ELSE identify_built(build_division_mapping(st, e), Strip(Lower(weight_mention)))

(***************************************************************************)
(* The intent classifier.  A matcher is an operator from the state, the    *)
(* environment and the message to the state afterwards and the intent it   *)
(* returns, None when it passes the message on.  The calls of              *)
(* resolve_fighter_name and of parse_query_intent are recorded in the      *)
(* trace.                                                                  *)
(***************************************************************************)
CHAMPION_KEYWORDS == <<"champion", "champ", "title", "belt", "titleholder">>

RANKING_KEYWORDS == <<"ranking", "rankings", "top", "best fighter", "best fighters">>

PHYSICAL_ATTRIBUTES ==
    <<"height", "weight", "reach", "leg reach", "tallest", "shortest", "longest", "heaviest",
      "lightest">>

\* any(word in s for word in words)
ContainsAny(words, s) == \E i \in 1..Len(words) : Contains(words[i], s)

\* the attribute a comparison term stands for in the message
AttributeOfTerm(term, message_lower) ==
    IF term \in {"tallest", "shortest"} THEN "height"
    ELSE IF term = "longest"
         THEN IF Contains("leg", message_lower) \/ Contains("kick", message_lower)
              THEN "legReach" ELSE "reach"
    ELSE IF term \in {"heaviest", "lightest"} THEN "weight"
    ELSE IF Contains("leg", message_lower) \/ Contains("kick", message_lower) THEN "legReach"
    ELSE IF Contains("arm", message_lower) THEN "reach"
    ELSE "height"

\* returns (is_physical, attribute_data)
is_physical_attribute_query(message) ==
    LET message_lower == Lower(message)
        comparison_terms ==
            <<"tallest", "shortest", "longest", "heaviest", "lightest", "biggest", "smallest">>
        terms == {i \in 1..Len(comparison_terms) : Contains(comparison_terms[i], message_lower)}
        direct == <<"height", "weight", "reach">>
        attrs == {i \in 1..Len(direct) : Contains(direct[i], message_lower)}
    IN IF ~ContainsAny(PHYSICAL_ATTRIBUTES, message_lower) THEN [is |-> FALSE, data |-> None]
       ELSE IF terms # {}
            THEN [is |-> TRUE,
                  data |-> [kind |-> "dict",
                            attribute |-> AttributeOfTerm(comparison_terms[Min(terms)], message_lower),
                            comparison |-> Str(comparison_terms[Min(terms)])]]
       ELSE IF attrs # {}
            THEN [is |-> TRUE,
                  data |-> [kind |-> "dict", attribute |-> direct[Min(attrs)], comparison |-> None]]
       ELSE IF Contains("leg reach", message_lower) \/ Contains("leg-reach", message_lower)
            THEN [is |-> TRUE,
                  data |-> [kind |-> "dict", attribute |-> "legReach", comparison |-> None]]
       ELSE [is |-> FALSE, data |-> None]

RECURSIVE Call(_, _, _, _)
\* the call resolve_fighter_name(name)
CallResolve(st, e, name) ==
    Call("resolve_fighter_name", Ev(st, "resolve_fighter_name", name), e, name)

RECURSIVE ResolveFirst(_, _, _, _)
\* r is what resolve_fighter_name did for the i-th name
ResolvedOr(r, e, names, i) ==
    IF r.raised \/ r.ret # None THEN r ELSE ResolveFirst(r.st, e, names, i + 1)

\* for pattern in patterns: if it matches, resolve its name; the id of the
\* first name that resolves; names are the names of the patterns that match
ResolveFirst(st, e, names, i) ==
    IF i > Len(names) THEN Returned(st, None)
    ELSE ResolvedOr(CallResolve(st, e, names[i]), e, names, i)

RECURSIVE NormalizeFirst(_, _, _, _)
\* r is what normalize_division_name did for the i-th name
NormalizedOr(r, e, names, i) ==
    IF r.raised \/ r.ret # None THEN r ELSE NormalizeFirst(r.st, e, names, i + 1)

\* the same for division names and normalize_division_name
NormalizeFirst(st, e, names, i) ==
    IF i > Len(names) THEN Returned(st, None)
    ELSE NormalizedOr(Call("normalize_division_name", st, e, names[i]), e, names, i)

\* match.group(1).strip() if the pattern matched
GroupOf(m, s) == IF m.ok THEN <<Strip(GroupText(m, s, 1))>> ELSE <<>>

RECURSIVE GroupsOf(_, _, _)
\* match.group(1).strip() of the patterns, from the i-th on, that match
GroupsOf(patterns, s, i) ==
    IF i > Len(patterns) THEN <<>>
    ELSE GroupOf(Search(patterns[i], s), s) \o GroupsOf(patterns, s, i + 1)

ComparisonAttribute_DefaultHeight(comparison, message_lower) ==
    IF comparison \in {"taller", "shorter"} THEN Str("height")
    ELSE IF comparison \in {"heavier", "lighter"} THEN Str("weight")
    ELSE IF comparison = "bigger" THEN Str("height")
    ELSE IF comparison \in {"stronger", "better"} THEN Str("record")
    ELSE IF ContainsAny(<<"heavier", "lighter", "weight">>, message_lower) THEN Str("weight")
    ELSE IF ContainsAny(<<"reach", "longer arms">>, message_lower) THEN Str("reach")
    ELSE IF ContainsAny(<<"leg reach", "longer legs">>, message_lower) THEN Str("legReach")
    ELSE Str("height")

\* lines 926-945: the attribute a comparison is about, None for all of them
ComparisonAttribute(comparison, message_lower) ==
    IF comparison \in {"taller", "shorter"} THEN Str("height")
    ELSE IF comparison \in {"heavier", "lighter"} THEN Str("weight")
    ELSE IF comparison = "bigger" THEN Str("height")
    ELSE IF comparison \in {"stronger", "better"} THEN Str("record")
    ELSE IF ContainsAny(<<"taller", "shorter", "height">>, message_lower) THEN Str("height")
    ELSE IF ContainsAny(<<"heavier", "lighter", "weight">>, message_lower) THEN Str("weight")
    ELSE IF ContainsAny(<<"reach", "longer arms">>, message_lower) THEN Str("reach")
    ELSE IF ContainsAny(<<"leg reach", "longer legs">>, message_lower) THEN Str("legReach")
    ELSE None

RECURSIVE CompareFrom(_, _, _, _)
\* lines 919-954: r1 and r2 are what resolve_fighter_name did for the two
\* names of the i-th pattern
CompareSecond(r1, r2, e, m, message_lower, i) ==
    IF r2.raised THEN r2
    ELSE IF r1.ret # None /\ r2.ret # None
         THEN Returned(r2.st,
                       [kind |-> "dict", intent |-> "fighter_comparison",
                        fighter1_id |-> r1.ret, fighter2_id |-> r2.ret,
                        attribute |->
                            ComparisonAttribute(IF i = 1 THEN GroupText(m, message_lower, 1) ELSE "",
                                                message_lower)])
    ELSE CompareFrom(r2.st, e, message_lower, i + 1)

CompareFirst(r1, e, m, message_lower, i) ==
    IF r1.raised THEN r1
    ELSE CompareSecond(r1, CallResolve(r1.st, e, GroupText(m, message_lower, IF i = 1 THEN 3 ELSE 2)),
                       e, m, message_lower, i)

\* m is the match of the i-th pattern
CompareMatch(st, e, m, message_lower, i) ==
    IF ~m.ok THEN CompareFrom(st, e, message_lower, i + 1)
    ELSE CompareFirst(CallResolve(st, e, GroupText(m, message_lower, IF i = 1 THEN 2 ELSE 1)),
                      e, m, message_lower, i)

\* for pattern in COMPARISON_PATTERNS, from the i-th on; the first pattern
\* has the comparison and two names, the others two names
CompareFrom(st, e, message_lower, i) ==
    IF i > Len(COMPARISON_PATTERNS) THEN Returned(st, None)
    ELSE CompareMatch(st, e, Search(COMPARISON_PATTERNS[i], message_lower), message_lower, i)

parse_fighter_comparison(st, e, message) == CompareFrom(st, e, Strip(Lower(message)), 1)

\* r is what resolve_fighter_name did for a name of the message
FighterInfoOf(r) ==
    IF r.raised \/ r.ret = None THEN r
    ELSE Returned(r.st, [kind |-> "dict", intent |-> "fighter_info", fighter_id |-> r.ret])

\* r is what a division lookup did; intent is the intent of the division found
DivisionIntentOf(r, intent) ==
    IF r.raised \/ r.ret = None THEN r
    ELSE Returned(r.st, [kind |-> "dict", intent |-> intent, division_id |-> r.ret])

RECURSIVE RStripChar(_, _)
\* s.rstrip(c)
RStripChar(s, c) ==
    IF s # "" /\ CharAt(s, Len(s)) = c THEN RStripChar(SubSeq(s, 1, Len(s) - 1), c) ELSE s

\* lines 1027-1038
RecordMatcher(st, e, message_lower) ==
    FighterInfoOf(ResolveFirst(st, e, GroupsOf(RECORD_PATTERNS, message_lower, 1), 1))

\* lines 1040-1049
SingleTokenMatcher(st, e, message_lower) ==
    LET fighter_name == Strip(RStripChar(message_lower, "?"))
    IN IF Len(Split(message_lower)) = 1 /\ CharAt(message_lower, Len(message_lower)) = "?"
          /\ Len(fighter_name) > 3
       THEN FighterInfoOf(CallResolve(st, e, fighter_name))
       ELSE Returned(st, None)

\* lines 1051-1057
PhysicalMatcher(st, e, message_lower) ==
    LET p == is_physical_attribute_query(message_lower)
    IN IF p.is /\ p.data # None /\ p.data.comparison # None
       THEN Returned(st, [kind |-> "dict", intent |-> "physical_comparison",
                          attribute_data |-> p.data])
       ELSE Returned(st, None)

\* lines 1059-1073
P4PMatcher(st, e, message_lower) ==
    IF \E i \in 1..Len(P4P_PATTERNS) : Search(P4P_PATTERNS[i], message_lower).ok
    THEN Returned(st, [kind |-> "dict", intent |-> "division_rankings",
                       division_id |->
                           IF Contains("women", message_lower) \/ Contains("female", message_lower)
                           THEN Str("womens-pound-for-pound-top-rank")
                           ELSE Str("mens-pound-for-pound-top-rank")])
    ELSE Returned(st, None)

\* lines 1075-1087
ChampionMatcher(st, e, message_lower) ==
    DivisionIntentOf(NormalizeFirst(st, e, GroupsOf(CHAMPION_PATTERNS, message_lower, 1), 1),
                     "division_champion")

\* lines 1089-1101
RankingMatcher(st, e, message_lower) ==
    DivisionIntentOf(NormalizeFirst(st, e, GroupsOf(RANKING_PATTERNS, message_lower, 1), 1),
                     "division_rankings")

\* the patterns compiled at lines 1106-1109
AttributePatterns ==
    << <<Words(<<"height", "weight", "reach", "leg reach">>), Lit(" of ")>>
       \o Group(1, <<Rep(NameChars, 1)>>),
       Group(1, <<Rep(NameChars, 1)>>)
       \o <<Opt(<<Lit("'s")>>), Rep(SpaceChars, 0),
            Words(<<"height", "weight", "reach", "leg reach">>)>> >>

\* r is what resolve_fighter_name did for the fighter of the attribute
FighterAttributeOf(r, attribute) ==
    IF r.raised \/ r.ret = None THEN r
    ELSE Returned(r.st, [kind |-> "dict", intent |-> "fighter_attribute", fighter_id |-> r.ret,
                         attribute |-> attribute])

\* lines 1103-1122
AttributeMatcher(st, e, message_lower) ==
    LET p == is_physical_attribute_query(message_lower)
    IN IF p.is /\ p.data # None
       THEN FighterAttributeOf(
                ResolveFirst(st, e, GroupsOf(AttributePatterns, message_lower, 1), 1),
                p.data.attribute)
       ELSE Returned(st, None)

\* lines 1124-1136
FighterMatcher(st, e, message_lower) ==
    FighterInfoOf(ResolveFirst(st, e, GroupsOf(FIGHTER_PATTERNS, message_lower, 1), 1))

\* lines 1141-1155 and 1160-1174: l is what load_rankings_data() did; the
\* first loaded division whose name is in the message, else all of them
DivisionNamed(l, e, message_lower, one, all) ==
    LET g == TTLCache_get(l.st.CACHE["rankings"], "rankings", e.now)
        st1 == [l.st EXCEPT !.CACHE["rankings"] = g.self]
        named == IF Truthy(g.ret)
                 THEN {i \in 1..Len(g.ret.items) :
                          Contains(Lower(g.ret.items[i].categoryName), message_lower)}
                 ELSE {}
    IN IF l.raised THEN l
       ELSE IF named # {}
            THEN Returned(st1, [kind |-> "dict", intent |-> one,
                                division_id |-> Str(g.ret.items[Min(named)].id)])
       ELSE Returned(st1, [kind |-> "dict", intent |-> all])

\* lines 1138-1155
RankingKeywordMatcher(st, e, message_lower) ==
    IF ContainsAny(RANKING_KEYWORDS, message_lower)
    THEN DivisionNamed(Call("load_rankings_data", st, e, ""), e, message_lower,
                       "division_rankings", "all_rankings")
    ELSE Returned(st, None)

\* lines 1157-1174
ChampionKeywordMatcher(st, e, message_lower) ==
    IF ContainsAny(CHAMPION_KEYWORDS, message_lower)
    THEN DivisionNamed(Call("load_rankings_data", st, e, ""), e, message_lower,
                       "division_champion", "all_champions")
    ELSE Returned(st, None)

\* lines 1176-1182
WeightClassMatcher(st, e, message_lower) ==
    DivisionIntentOf(Call("identify_weight_class", st, e, message_lower),
                     IF ContainsAny(CHAMPION_KEYWORDS, message_lower)
                     THEN "division_champion" ELSE "division_rankings")

\* the intent parse_open_query gives a division found by its weight class
OpenDivisionOf(r, message_lower) ==
    DivisionIntentOf(r, IF Search(<<WordBoundary, Words(<<"champ", "champion", "title", "belt">>),
                                    WordBoundary>>, message_lower).ok
                        THEN "division_champion" ELSE "division_rankings")

\* the dictionary attribute_extremes, in its order
attribute_extremes ==
    << <<"tallest", "height", "tallest">>, <<"shortest", "height", "shortest">>,
       <<"heaviest", "weight", "heaviest">>, <<"lightest", "weight", "lightest">>,
       <<"longest reach", "reach", "longest">>, <<"longest arms", "reach", "longest">>,
       <<"longest legs", "legReach", "longest">> >>

\* lines 989-1009: the message names no division
OpenVague(message_lower) ==
    LET found == {i \in 1..Len(attribute_extremes) :
                     Search(<<WordBoundary, Lit(attribute_extremes[i][1]), WordBoundary>>,
                            message_lower).ok}
    IN IF found # {}
       THEN [kind |-> "dict", intent |-> "physical_comparison",
             attribute_data |-> [kind |-> "dict", attribute |-> attribute_extremes[Min(found)][2],
                                 comparison |-> Str(attribute_extremes[Min(found)][3])]]
       ELSE IF ContainsAny(<<"fight", "fighter", "ufc", "mma", "octagon", "knockout", "submission">>,
                           message_lower)
            THEN [kind |-> "dict", intent |-> "general_mma_question"]
       ELSE [kind |-> "dict", intent |-> "unknown"]

\* lines 980-1009: r is what identify_weight_class(message_lower) did
OpenExplicit(r, message_lower) ==
    IF r.raised \/ r.ret # None THEN OpenDivisionOf(r, message_lower)
    ELSE Returned(r.st, OpenVague(message_lower))

\* lines 969-987: first is what identify_weight_class(message_lower) does
\* when the message mentions a weight by its number
OpenWeight(st, e, message_lower, first) ==
    IF Search(Group(1, <<Rep(DigitChars, 1)>>)
              \o <<Rep(SpaceChars, 0), Words(<<"pound", "lb", "lbs", "kg", "kilo">>)>>,
              message_lower).ok
    THEN IF first.raised \/ first.ret # None THEN OpenDivisionOf(first, message_lower)
         ELSE OpenExplicit(Call("identify_weight_class", first.st, e, message_lower), message_lower)
    ELSE OpenExplicit(first, message_lower)

parse_open_query(st, e, message) ==
    LET message_lower == Strip(Lower(message))
    IN IF Search(<<WordBoundary, Words(<<"best", "top", "greatest", "goat">>), WordBoundary>>,
                 message_lower).ok
       THEN Returned(st, [kind |-> "dict", intent |-> "division_rankings",
                          division_id |->
                              IF Search(<<WordBoundary, Words(<<"woman", "women", "female">>),
                                          WordBoundary>>, message_lower).ok
                              THEN Str("womens-pound-for-pound-top-rank")
                              ELSE Str("mens-pound-for-pound-top-rank")])
       ELSE OpenWeight(st, e, message_lower, Call("identify_weight_class", st, e, message_lower))

\* lines 1184-1187
KnownOrNone(r) == IF r.raised \/ r.ret.intent # "unknown" THEN r ELSE Returned(r.st, None)

OpenQueryMatcher(st, e, message_lower) == KnownOrNone(parse_open_query(st, e, message_lower))

\* lines 1189-1195
WholeNameMatcher(st, e, message_lower) == FighterInfoOf(CallResolve(st, e, message_lower))

\* lines 1197-1203
WholeDivisionMatcher(st, e, message_lower) ==
    DivisionIntentOf(Call("normalize_division_name", st, e, message_lower), "division_info")

Matchers_FighterFirst ==
    <<"record", "single token", "physical", "p4p", "champion", "ranking",
      "attribute", "fighter", "comparison", "ranking keyword", "champion keyword",
      "weight class", "open query", "whole name", "whole division">>

Matchers_PhysicalLate ==
    <<"comparison", "record", "single token", "p4p", "champion", "ranking",
      "attribute", "fighter", "physical", "ranking keyword", "champion keyword",
      "weight class", "open query", "whole name", "whole division">>

\* the matchers of parse_query_intent in the order of its code
Matchers ==
    <<"comparison", "record", "single token", "physical", "p4p", "champion", "ranking",
      "attribute", "fighter", "ranking keyword", "champion keyword", "weight class",
      "open query", "whole name", "whole division">>

Matcher(name, st, e, message_lower) ==
    CASE name = "comparison" -> parse_fighter_comparison(st, e, message_lower)
      [] name = "record" -> RecordMatcher(st, e, message_lower)
      [] name = "single token" -> SingleTokenMatcher(st, e, message_lower)
      [] name = "physical" -> PhysicalMatcher(st, e, message_lower)
      [] name = "p4p" -> P4PMatcher(st, e, message_lower)
      [] name = "champion" -> ChampionMatcher(st, e, message_lower)
      [] name = "ranking" -> RankingMatcher(st, e, message_lower)
      [] name = "attribute" -> AttributeMatcher(st, e, message_lower)
      [] name = "fighter" -> FighterMatcher(st, e, message_lower)
      [] name = "ranking keyword" -> RankingKeywordMatcher(st, e, message_lower)
      [] name = "champion keyword" -> ChampionKeywordMatcher(st, e, message_lower)
      [] name = "weight class" -> WeightClassMatcher(st, e, message_lower)
      [] name = "open query" -> OpenQueryMatcher(st, e, message_lower)
      [] name = "whole name" -> WholeNameMatcher(st, e, message_lower)
      [] name = "whole division" -> WholeDivisionMatcher(st, e, message_lower)

RECURSIVE Cascade(_, _, _, _, _)
\* r is what the k-th matcher did
MatchedOr(r, e, message_lower, order, k) ==
    IF r.raised \/ r.ret # None THEN r ELSE Cascade(r.st, e, message_lower, order, k + 1)

\* the matchers from the k-th on: the first that returns an intent decides
Cascade(st, e, message_lower, order, k) ==
    IF k > Len(order) THEN Returned(st, [kind |-> "dict", intent |-> "unknown"])
    ELSE MatchedOr(Matcher(order[k], st, e, message_lower), e, message_lower, order, k)

\* the calls the classifier makes, by the name of the function called; the
\* cascade of the matchers is the body of parse_query_intent
Call(fn, st, e, arg) ==
    CASE fn = "resolve_fighter_name" -> resolve_fighter_name(st, e, arg)
      [] fn = "normalize_division_name" -> normalize_division_name(st, e, arg)
      [] fn = "identify_weight_class" -> identify_weight_class(st, e, arg)
      [] fn = "load_rankings_data" -> load_rankings_data(st, e)
      [] fn = "parse_query_intent" -> Cascade(st, e, Strip(Lower(arg)), Matchers, 1)

parse_query_intent(st, e, message) ==
    IF message = ""
    THEN Returned(Ev(st, "parse_query_intent", message), [kind |-> "dict", intent |-> "unknown"])
    ELSE Call("parse_query_intent", Ev(st, "parse_query_intent", message), e, message)

(***************************************************************************)
(* The request layer.  request.get_json() is None or a JSON object, here   *)
(* the function from its fields to their values; a response is the JSON    *)
(* body's "response" and the HTTP status.                                   *)
(***************************************************************************)
MAX_INPUT_LENGTH == 200

\* the characters below 32 a message is given here
ControlChars == {"\t", "\n", "\r", "\f"}

\* ''.join(char for char in text if ord(char) >= 32)
RECURSIVE RemoveControl(_, _)
RemoveControl(text, i) ==
    IF i > Len(text) THEN ""
    ELSE (IF CharAt(text, i) \in ControlChars THEN "" ELSE CharAt(text, i))
         \o RemoveControl(text, i + 1)

sanitize_input(text) ==
    IF text = None THEN ""
    ELSE LET t == RemoveControl(text.s, 1)
         IN IF Len(t) > MAX_INPUT_LENGTH THEN SubSeq(t, 1, MAX_INPUT_LENGTH) ELSE t

\* the branches of generate_response that answer without a lookup: the
\* general question and, for the unknown intent, the final else; the texts
\* are their first sentences
generate_response(st, e, intent_data) ==
    CASE intent_data.intent = "general_mma_question" ->
            Returned(Ev(st, "generate_response", intent_data.intent),
                     Str("I can help you with UFC fighter information."))
      [] intent_data.intent = "unknown" ->
            Returned(Ev(st, "generate_response", intent_data.intent),
                     Str("I'm not sure what you're asking about."))

JsonObject(fields) == [kind |-> "dict", fields |-> fields]

Response(status, response) == [kind |-> "response", status |-> status, response |-> response]

\* r is what generate_response(intent_data) did
Responded(r) == IF r.raised THEN r ELSE Returned(r.st, Response(200, r.ret.s))

\* p is what parse_query_intent(user_message) did
Respond(p, e) == IF p.raised THEN p ELSE Responded(generate_response(p.st, e, p.ret))

webhook(st, e, data) ==
    IF data = None \/ DOMAIN data.fields = {} \/ "message" \notin DOMAIN data.fields
    THEN Returned(st, Response(400, "Invalid request, missing 'message' in JSON data"))
    ELSE Respond(parse_query_intent(st, e, Strip(sanitize_input(data.fields["message"]))), e)

(***************************************************************************)
(* The data store as a state machine: one action per lookup, the cache     *)
(* invalidation endpoint, the passing of time and a change of the upstream *)
(* data.  last is the last call, what it returned and the tiers it         *)
(* consulted; it is reset when time passes or the upstream changes.        *)
(* traffic is the set of lookups the behaviour exercises, view_stored the  *)
(* time at which CACHE["all_fighters_data"] was last assigned.             *)
(***************************************************************************)
Urls ==
    {OCTAGON_API_BASE_URL \o "/fighters", OCTAGON_API_BASE_URL \o "/rankings"}
    \cup {OCTAGON_API_BASE_URL \o "/fighter/" \o f : f \in FighterIds}
    \cup {OCTAGON_API_BASE_URL \o "/division/" \o d : d \in DivisionIds}

\* the seconds by which the clock is advanced: the refresh interval, and the
\* rest of a day
Jumps == {1800, 84600}

\* the revisions the upstream takes while the data store is exercised
StoreRevisions == {0, 1}

Lookups ==
    {"load_fighters_data", "load_rankings_data", "get_fighter_data", "get_division_data",
     "get_all_fighters_data", "build_division_mapping"}

\* the lookups one behaviour exercises: lookups that share no cache entry
\* do not affect each other, so these are one lookup, or two that share one
Workloads ==
    {{l} : l \in Lookups}
    \cup {{"get_all_fighters_data", "get_fighter_data"},
          {"get_all_fighters_data", "load_fighters_data"},
          {"build_division_mapping", "load_rankings_data"}}

NoOp == [op |-> "none", arg |-> "", ret |-> None, raised |-> FALSE, trace |-> <<>>]

St == [CACHE |-> CACHE, redis_db |-> redis_db, api_rate_limiter |-> api_rate_limiter,
       trace |-> <<>>]

Env(o) ==
    [now |-> now, enabled |-> REDIS_ENABLED, upstream |-> upstream,
     rget |-> o.rget, rset |-> o.rset, resp |-> [u \in Urls |-> o.resp]]

\* what a call meets: Redis not answering its reads; else the upstream
\* failing in one of the four ways; else the upstream answering and Redis
\* answering its writes or not.  Without Redis only the upstream's answer.
Outcomes ==
    {[rget |-> TRUE, rset |-> TRUE, resp |-> r] : r \in Responses}
    \cup (IF REDIS_ENABLED
          THEN {[rget |-> FALSE, rset |-> FALSE, resp |-> "ok"],
                [rget |-> TRUE, rset |-> FALSE, resp |-> "ok"]}
          ELSE {})

\* what a call of the resolver, the normalizer or the classifier meets: of
\* the upstream's failures, the timeout
ResolveOutcomes == {o \in Outcomes : o.resp \in {"ok", "Timeout"}}

Commit(op, arg, r) ==
    /\ CACHE' = r.st.CACHE
    /\ redis_db' = r.st.redis_db
    /\ api_rate_limiter' = r.st.api_rate_limiter
    /\ last' = [op |-> op, arg |-> arg, ret |-> r.ret, raised |-> r.raised,
                trace |-> r.st.trace]
    /\ view_stored' = IF r.st.CACHE["all_fighters_data"] = CACHE["all_fighters_data"]
                      THEN view_stored ELSE now
    /\ UNCHANGED <<REDIS_ENABLED, now, ticks, upstream, traffic>>

LoadFighters ==
    /\ "load_fighters_data" \in traffic
    /\ \E o \in Outcomes :
          Commit("load_fighters_data", "fighters", load_fighters_data(St, Env(o)))
    /\ UNCHANGED <<ttlVars, rlVars, resVars, bgVars>>

LoadRankings ==
    /\ "load_rankings_data" \in traffic
    /\ \E o \in Outcomes :
          Commit("load_rankings_data", "rankings", load_rankings_data(St, Env(o)))
    /\ UNCHANGED <<ttlVars, rlVars, resVars, bgVars>>

GetFighter(f) ==
    /\ "get_fighter_data" \in traffic
    /\ \E o \in Outcomes :
          Commit("get_fighter_data", f, get_fighter_data(St, Env(o), f))
    /\ UNCHANGED <<ttlVars, rlVars, resVars, bgVars>>

GetDivision(d) ==
    /\ "get_division_data" \in traffic
    /\ \E o \in Outcomes :
          Commit("get_division_data", d, get_division_data(St, Env(o), d))
    /\ UNCHANGED <<ttlVars, rlVars, resVars, bgVars>>

GetAllFighters ==
    /\ "get_all_fighters_data" \in traffic
    /\ \E o \in Outcomes :
          Commit("get_all_fighters_data", "all_fighters_data", get_all_fighters_data(St, Env(o)))
    /\ UNCHANGED <<ttlVars, rlVars, resVars, bgVars>>

BuildDivisionMapping ==
    /\ "build_division_mapping" \in traffic
    /\ \E o \in Outcomes :
          Commit("build_division_mapping", "division_mapping", build_division_mapping(St, Env(o)))
    /\ UNCHANGED <<ttlVars, rlVars, resVars, bgVars>>

\* the divisions of the rankings the local cache holds
LoadedDivisions ==
    LET g == TTLCache_get(CACHE["rankings"], "rankings", now).ret
    IN IF Truthy(g) THEN g.items ELSE <<>>

\* normalize_division_name, called with the lowercased categoryName of a
\* division of the loaded rankings
NormalizeDivision(d) ==
    /\ \E i \in 1..Len(LoadedDivisions) : Lower(LoadedDivisions[i].categoryName) = d
    /\ \E o \in ResolveOutcomes :
          Commit("normalize_division_name", d, normalize_division_name(St, Env(o), d))
    /\ UNCHANGED <<ttlVars, rlVars, resVars, bgVars>>

ClearCache ==
    /\ \E auth \in {ADMIN_KEY, ""}, rflush \in (IF REDIS_ENABLED THEN BOOLEAN ELSE {TRUE}) :
          Commit("clear_cache", auth,
                 clear_cache(St, Env([rget |-> TRUE, rset |-> TRUE, resp |-> "ok"]),
                             auth, rflush))
    /\ UNCHANGED <<ttlVars, rlVars, resVars, bgVars>>

\* time passes; Redis drops the keys that expire
Tick ==
    /\ ticks < MaxTicks
    /\ \E d \in Jumps :
          /\ now' = now + d
          /\ redis_db' = [k \in redis_keys(redis_db, now + d) |-> redis_db[k]]
    /\ ticks' = ticks + 1
    /\ last' = NoOp
    /\ UNCHANGED <<CACHE, REDIS_ENABLED, api_rate_limiter, upstream, traffic, view_stored>>
    /\ UNCHANGED <<ttlVars, rlVars, resVars, bgVars>>

\* the upstream data changes
UpstreamChange ==
    /\ \E rev \in StoreRevisions \ {upstream} : upstream' = rev
    /\ last' = NoOp
    /\ UNCHANGED <<CACHE, REDIS_ENABLED, redis_db, api_rate_limiter, now, ticks, traffic, view_stored>>
    /\ UNCHANGED <<ttlVars, rlVars, resVars, bgVars>>

(***************************************************************************)
(* The background refresher: the daemon thread that start_background_      *)
(* refresh starts.  One cycle is one pass through the body of its          *)
(* `while True`: the try block that loads the roster and the rankings,     *)
(* then the sleep of the try block or of the except clause.                *)
(***************************************************************************)
RefreshInterval == 1800

RetryInterval == 300

NotStarted == [pc |-> "not started", cycles |-> 0, caught |-> 0, slept |-> 0]

Started == [NotStarted EXCEPT !.pc = "running"]

\* load_rankings_data(), reached when load_fighters_data() returned
RefreshRankings(f, e) == IF f.raised THEN f ELSE load_rankings_data(f.st, e)

\* the two loads of the try block; ef and er are what each of them meets
RefreshLoads(st, ef, er) == RefreshRankings(load_fighters_data(st, ef), er)

\* a refresher without the except clause: the exception ends the thread
refresh_job_Uncaught(self, r) ==
    IF r.raised
    THEN [self EXCEPT !.pc = "terminated", !.cycles = @ + 1]
    ELSE [self EXCEPT !.pc = "sleeping", !.cycles = @ + 1, !.slept = RefreshInterval]

\* the refresher after the loads r of one cycle: asleep for the interval of
\* the try block, or, an exception caught, for that of the except clause
refresh_job(self, r) ==
    IF r.raised
    THEN [self EXCEPT !.pc = "sleeping", !.cycles = @ + 1, !.caught = @ + 1,
                      !.slept = RetryInterval]
    ELSE [self EXCEPT !.pc = "sleeping", !.cycles = @ + 1, !.slept = RefreshInterval]

\* whether the origin answers both loads of a cycle
Reachability(ef, er) ==
    IF ef.resp = "ok" /\ er.resp = "ok" THEN "origin reachable" ELSE "origin unreachable"

\* one cycle of the refresher, up to its sleep
RefreshCycle ==
    /\ refresher.pc = "running"
    /\ refresher.cycles < MaxCycles
    /\ \E ef \in Outcomes, er \in Outcomes :
          /\ Commit("refresh_job", Reachability(ef, er), RefreshLoads(St, Env(ef), Env(er)))
          /\ refresher' = refresh_job(refresher, RefreshLoads(St, Env(ef), Env(er)))
    /\ UNCHANGED <<ttlVars, rlVars, resVars, initializer>>

\* RefreshCycle as the refresher's own state shows it: the cycle the thread
\* is in completes, with or without an exception caught
RefresherCycles ==
    /\ refresher.pc = "running"
    /\ refresher.cycles < MaxCycles
    /\ \E raised \in BOOLEAN : refresher' = refresh_job(refresher, [raised |-> raised])

\* time.sleep returns: the interval has passed, Redis has dropped the keys
\* that expired
RefreshSleep ==
    /\ refresher.pc = "sleeping"
    /\ refresher.cycles < MaxCycles
    /\ now' = now + refresher.slept
    /\ redis_db' = [k \in redis_keys(redis_db, now + refresher.slept) |-> redis_db[k]]
    /\ refresher' = [refresher EXCEPT !.pc = "running"]
    /\ last' = NoOp
    /\ UNCHANGED <<CACHE, REDIS_ENABLED, api_rate_limiter, ticks, upstream, traffic, view_stored>>
    /\ UNCHANGED <<ttlVars, rlVars, resVars, initializer>>

(***************************************************************************)
(* Name resolution as a state machine: the resolver is called with the     *)
(* queries below while time passes, the upstream changes and the caches    *)
(* are invalidated.  answers[q] is the first id returned for the query q,  *)
(* compared without case.                                                  *)
(***************************************************************************)
Queries == {"", "judo jones", "Judo Jones", "bones"}

\* the queries that reach the fuzzy step below the threshold: a first name,
\* and a name that is no part of a fighter's name
FuzzyQueries == {"jon", "jonny"}

QueryKeys == {Lower(q) : q \in Queries \cup FuzzyQueries}

Resolve(q) ==
    /\ \E o \in ResolveOutcomes :
          LET r == resolve_fighter_name(
                       [CACHE |-> CACHE, redis_db |-> redis_db,
                        api_rate_limiter |-> api_rate_limiter, name_map |-> name_map,
                        trace |-> <<>>],
                       Env(o), q)
          IN /\ Commit("resolve_fighter_name", q, r)
             /\ name_map' = r.st.name_map
             /\ answers' = IF answers[Lower(q)] = None /\ ~r.raised
                           THEN [answers EXCEPT ![Lower(q)] = r.ret]
                           ELSE answers
    /\ UNCHANGED <<ttlVars, rlVars, bgVars>>

ResolveNext ==
    \/ \E q \in Queries : Resolve(q)
    \/ ClearCache
    \/ Tick
    \/ UpstreamChange

(***************************************************************************)
(* The classifier and the request layer as a state machine: messages are   *)
(* classified and requests are answered while the upstream changes and the *)
(* caches are invalidated.                                                 *)
(***************************************************************************)
Messages ==
    {"jones vs pereira", "who is better gsp or pereira", "compare Jones vs Pereira",
     "who is the lightweight champion", "GSP", "who has the longest reach",
     "does jones have the longest reach"}

\* request bodies: no JSON, an empty object, an object without the field,
\* and objects whose message is null, empty, blank, control characters only,
\* or a question
Requests ==
    {None, JsonObject(<<>>), JsonObject([text |-> Str("hello")])}
    \cup {JsonObject([message |-> v]) :
             v \in {None, Str(""), Str("  "), Str("\t\n"), Str("ufc")}}

\* what a call of the classifier meets: the upstream answering or timing
\* out, and Redis answering or not answering at all
IntentOutcomes == {o \in ResolveOutcomes : o.rset = o.rget}

ResSt ==
    [CACHE |-> CACHE, redis_db |-> redis_db, api_rate_limiter |-> api_rate_limiter,
     name_map |-> name_map, trace |-> <<>>]

\* r is what the call op(arg) did
CommitResolver(op, arg, r) ==
    /\ Commit(op, arg, r)
    /\ name_map' = r.st.name_map

\* the comparisons parse_fighter_comparison is called with: the wordings of
\* the attributes, around two names that resolve
Comparisons ==
    {"who is taller jones or pereira", "who is lighter jones or pereira",
     "reach: jones vs pereira", "leg reach: jones vs pereira",
     "longer legs: jones vs pereira"}

Compare(m) ==
    /\ \E o \in IntentOutcomes :
          CommitResolver("parse_fighter_comparison", m,
                         parse_fighter_comparison(ResSt, Env(o), m))
    /\ UNCHANGED <<ttlVars, rlVars, answers, bgVars>>

Classify(m) ==
    /\ \E o \in IntentOutcomes :
          CommitResolver("parse_query_intent", m, parse_query_intent(ResSt, Env(o), m))
    /\ UNCHANGED <<ttlVars, rlVars, answers, bgVars>>

Webhook(data) ==
    /\ \E o \in IntentOutcomes :
          CommitResolver("webhook", data, webhook(ResSt, Env(o), data))
    /\ UNCHANGED <<ttlVars, rlVars, answers, bgVars>>

\* messages that no matcher before the champion-keyword step claims: two
\* with a champion keyword (and a division name, or a weight), one that the
\* weight-class step answers and one that the open-query step answers
ChampionMessages == {"belt lightweight", "belt 155 lbs", "155 lbs", "the greatest"}

ChampionNext ==
    \/ \E m \in ChampionMessages : Classify(m)
    \/ UpstreamChange

CompareNext ==
    \/ \E m \in Comparisons : Compare(m)
    \/ ClearCache
    \/ Tick
    \/ UpstreamChange

IntentNext ==
    \/ \E m \in Messages : Classify(m)
    \/ LoadFighters
    \/ ClearCache
    \/ UpstreamChange

WebhookNext ==
    \/ \E data \in Requests : Webhook(data)
    \/ ClearCache
    \/ UpstreamChange

\* the names the normalizer is called with: the lowercased names of the
\* upstream's divisions
DivisionNames ==
    {Lower(UpstreamDivisions(1)[i].categoryName) : i \in 1..Len(UpstreamDivisions(1))}

\* the weight mentions identify_weight_class is called with: pounds and
\* kilograms at and around the thresholds
WeightMentions ==
    {"125 lbs", "126 lbs", "205 pounds", "206 lb",
     "56 kg", "57 kg", "61 kg", "66 kg", "84 kg", "93 kg", "94 kg"}

IdentifyWeight(w) ==
    /\ \E o \in ResolveOutcomes :
          Commit("identify_weight_class", w, Call("identify_weight_class", St, Env(o), w))
    /\ UNCHANGED <<ttlVars, rlVars, resVars, bgVars>>

WeightNext ==
    \/ \E w \in WeightMentions : IdentifyWeight(w)
    \/ Tick
    \/ UpstreamChange

DivisionNext ==
    \/ \E d \in DivisionNames : NormalizeDivision(d)
    \/ LoadRankings
    \/ BuildDivisionMapping
    \/ ClearCache
    \/ Tick
    \/ UpstreamChange

(***************************************************************************)
(* The first call of resolve_fighter_name, thread by thread.  The thread   *)
(* that finds no name_map assigns an empty one and fills it entry by       *)
(* entry; no lock is held, so other threads call resolve_fighter_name      *)
(* between any two of its assignments and find the attribute set.          *)
(***************************************************************************)
\* the assignments of lines 748-758, in their order
StaticEntries ==
    FIGHTER_NICKNAMES \o STANDALONE_LAST_NAMES
    \o [i \in 1..Len(RETIRED_FIGHTERS) |->
           <<RETIRED_FIGHTERS[i].key, "retired:" \o RETIRED_FIGHTERS[i].key>>]

NotCalled == [pc |-> "not called", at |-> 0, name |-> ""]

\* the names the threads resolve: a standalone last name and a retired key
LazyQueries == {"jones", "anderson silva"}

\* lines 745-746: the first caller finds no name_map and assigns {}
BeginInit(q) ==
    /\ initializer.pc = "not called"
    /\ name_map = None
    /\ name_map' = EmptyDict
    /\ initializer' = [pc |-> "filling", at |-> 0, name |-> q]
    /\ last' = NoOp
    /\ UNCHANGED <<CACHE, REDIS_ENABLED, redis_db, api_rate_limiter, now, ticks, upstream,
                   traffic, view_stored>>
    /\ UNCHANGED <<ttlVars, rlVars, answers, refresher>>

\* one assignment of the three loops
FillEntry ==
    /\ initializer.pc = "filling"
    /\ initializer.at < Len(StaticEntries)
    /\ name_map' = DictSet(name_map, StaticEntries[initializer.at + 1][1],
                           StaticEntries[initializer.at + 1][2])
    /\ initializer' = [initializer EXCEPT !.at = @ + 1]
    /\ last' = NoOp
    /\ UNCHANGED <<CACHE, REDIS_ENABLED, redis_db, api_rate_limiter, now, ticks, upstream,
                   traffic, view_stored>>
    /\ UNCHANGED <<ttlVars, rlVars, answers, refresher>>

\* lines 760-849: the first caller goes on with the name it was called with
FinishInit ==
    /\ initializer.pc = "filling"
    /\ initializer.at = Len(StaticEntries)
    /\ \E o \in ResolveOutcomes :
          CommitResolver("resolve_fighter_name", initializer.name,
                         Call("resolve_fighter_name", ResSt, Env(o), initializer.name))
    /\ initializer' = [initializer EXCEPT !.pc = "done"]
    /\ UNCHANGED <<ttlVars, rlVars, answers, refresher>>

\* another thread's call: line 745 finds the attribute set
ResolveBeside(q) ==
    /\ initializer.pc \in {"filling", "done"}
    /\ \E o \in ResolveOutcomes :
          CommitResolver("resolve_fighter_name", q,
                         Call("resolve_fighter_name", ResSt, Env(o), q))
    /\ UNCHANGED <<ttlVars, rlVars, answers, bgVars>>

LazyNext ==
    \/ \E q \in LazyQueries : BeginInit(q)
    \/ FillEntry
    \/ FinishInit
    \/ \E q \in LazyQueries : ResolveBeside(q)

\* the resolver called while the caches are invalidated and time passes,
\* over a roster that lists its fighters in one order or the other
AliasNext ==
    \/ \E q \in Queries : Resolve(q)
    \/ ClearCache
    \/ Tick

FuzzyNext ==
    \/ \E q \in FuzzyQueries : Resolve(q)
    \/ ClearCache
    \/ Tick
    \/ UpstreamChange

\* C10: once resolve_fighter_name has returned an id for a query, every
\* later call with the same query, compared without case, returns that id.
C10_ResolutionIdempotent ==
    (last.op = "resolve_fighter_name" /\ ~last.raised /\ answers[Lower(last.arg)] # None) =>
        last.ret = answers[Lower(last.arg)]

(***************************************************************************)
(* The four lookups and the tiers of each: the local cache and the key it  *)
(* uses there, its Redis key, its origin URL and the TTL of its Redis      *)
(* write.                                                                  *)
(***************************************************************************)
FourLookups ==
    {"load_fighters_data", "load_rankings_data", "get_fighter_data", "get_division_data"}

Tier(op, arg) ==
    IF op = "load_fighters_data"
    THEN [cache |-> "fighters", key |-> "fighters", rkey |-> "fighters_data",
          url |-> OCTAGON_API_BASE_URL \o "/fighters", ttl |-> 86400]
    ELSE IF op = "load_rankings_data"
    THEN [cache |-> "rankings", key |-> "rankings", rkey |-> "rankings_data",
          url |-> OCTAGON_API_BASE_URL \o "/rankings", ttl |-> 3600]
    ELSE IF op = "get_fighter_data"
    THEN [cache |-> "fighter_details", key |-> arg, rkey |-> "fighter:" \o arg,
          url |-> OCTAGON_API_BASE_URL \o "/fighter/" \o arg, ttl |-> 3600]
    ELSE [cache |-> "division_details", key |-> arg, rkey |-> "division:" \o arg,
          url |-> OCTAGON_API_BASE_URL \o "/division/" \o arg, ttl |-> 3600]

HasEv(tr, evs) == \E i \in 1..Len(tr) : tr[i].ev \in evs

\* every event of evs1 comes before every event of evs2
Before(tr, evs1, evs2) ==
    \A i, j \in 1..Len(tr) : (tr[i].ev \in evs1 /\ tr[j].ev \in evs2) => i < j

Attempted(tr) == HasEv(tr, {"origin", "origin failed"})

\* the local cache c holds an entry for key that has not expired at time t
LocalHolds(c, key, t) ==
    /\ key \in DOMAIN c.cache
    /\ key \in DOMAIN c.timestamps
    /\ t - c.timestamps[key] < c.ttl

\* Redis holds a key that has not expired at time t
RedisHolds(db, rkey, t) == rkey \in DOMAIN db /\ t < db[rkey].expires

\* the tiers are consulted in the order Redis, local cache, origin, and the
\* origin is asked only after the rate limiter
TierOrder(tr) ==
    /\ Before(tr, {"redis.get", "redis.get failed"}, {"local.get", "wait", "origin", "origin failed"})
    /\ Before(tr, {"local.get"}, {"wait", "origin", "origin failed"})
    /\ Before(tr, {"wait"}, {"origin", "origin failed"})
    /\ Attempted(tr) =>
          /\ HasEv(tr, {"wait"})
          /\ HasEv(tr, {"local.get"})
          /\ REDIS_ENABLED => HasEv(tr, {"redis.get"})

\* C4: each of the four lookups consults Redis, then the local cache, then
\* the origin, and asks the origin (after a rate-limiter wait) only when
\* neither Redis nor the local cache holds an unexpired entry for the key.
C4_TiersInOrder ==
    [][LET t == Tier(last'.op, last'.arg)
       IN (last'.op \in FourLookups /\ ~StartsWith(last'.arg, "retired:")) =>
             /\ TierOrder(last'.trace)
             /\ Attempted(last'.trace) =>
                   /\ ~(REDIS_ENABLED /\ RedisHolds(redis_db, t.rkey, now))
                   /\ ~LocalHolds(CACHE[t.cache], t.key, now)]_vars

C6_RedisFailuresSwallowed == ~last.raised

\* C7: after a successful origin fetch in one of the four lookups the local
\* cache holds the fetched value under the key, stamped with the time of the
\* fetch; with Redis enabled the value is written to Redis with the TTL of
\* that cache, and if that write fails the local entry stays and the lookup
\* still returns the fetched value.
C7_FetchedValueStored ==
    LET t == Tier(last.op, last.arg)
        fetched == OriginPayload(t.url, upstream)
    IN (last.op \in FourLookups /\ HasEv(last.trace, {"origin"})) =>
          /\ ~last.raised
          /\ t.key \in DOMAIN CACHE[t.cache].cache
          /\ CACHE[t.cache].cache[t.key] = fetched
          /\ CACHE[t.cache].timestamps[t.key] = now
          /\ last.op \in {"get_fighter_data", "get_division_data"} => last.ret = fetched
          /\ REDIS_ENABLED => HasEv(last.trace, {"redis.setex", "redis.setex failed"})
          /\ HasEv(last.trace, {"redis.setex"}) =>
                /\ t.rkey \in DOMAIN redis_db
                /\ json_loads(redis_db[t.rkey].value) = fetched
                /\ redis_db[t.rkey].expires = now + CACHE[t.cache].ttl

\* the roster was fetched and stored although the write to Redis failed
C7_Witness ==
    /\ last.op = "load_fighters_data"
    /\ HasEv(last.trace, {"origin"})
    /\ HasEv(last.trace, {"redis.setex failed"})
    /\ Truthy(CACHE["fighters"].cache["fighters"])

\* C8: after the cache invalidation has answered, the four local caches
\* hold no entry, the all-fighters view and the division mapping are absent
\* and Redis holds no key.
C8_AllTiersEmpty ==
    (last.op = "clear_cache" /\ last.ret.status = 200) =>
        /\ \A c \in {"rankings", "fighters", "fighter_details", "division_details"} :
              DOMAIN CACHE[c].cache = {} /\ DOMAIN CACHE[c].timestamps = {}
        /\ CACHE["all_fighters_data"] = None
        /\ CACHE["division_mapping"] = None
        /\ REDIS_ENABLED => redis_keys(redis_db, now) = {}

\* the TTL of the all-fighters view: that of its Redis copy
ViewTTL == 3600

\* C9: a lookup returns no value that its cache has held for that cache's
\* TTL or longer: a value served from a local cache was stored there less
\* than the TTL ago, and so was the all-fighters view.
C9_BoundedLifetime ==
    /\ LET t == Tier(last.op, last.arg)
       IN (/\ last.op \in FourLookups
           /\ Len(last.trace) > 0
           /\ last.trace[Len(last.trace)].ev = "local.get"
           /\ t.key \in DOMAIN CACHE[t.cache].cache) =>
              now - CACHE[t.cache].timestamps[t.key] < CACHE[t.cache].ttl
    /\ (last.op = "get_all_fighters_data" /\ ~last.raised /\ Truthy(last.ret)) =>
          now - view_stored < ViewTTL

(***************************************************************************)
(* Name resolution: what the alias map keeps, and the threshold.           *)
(***************************************************************************)
\* the roster the resolver scanned in the call that has just returned, and
\* the name it scanned it for
LoadedRoster ==
    LET g == TTLCache_get(CACHE["fighters"], "fighters", now).ret
    IN IF Truthy(g) THEN g.items ELSE <<>>

ScannedName == StripStyle(NicknameRewrite(Strip(Lower(last.arg))))

ScannedStyle == StyleOf(NicknameRewrite(Strip(Lower(last.arg))))

Scanned == last.op = "resolve_fighter_name" /\ HasEv(last.trace, {"scan"})

\* C11: after resolve_fighter_name(q) has found an id in the roster, by an
\* exact or a fuzzy match, the alias map holds the lowercased query q itself
\* with that id (so that the next resolution of q is a lookup in the map),
\* also when a nickname or a fighting style in q was rewritten or removed.
C11_QueryMemoized ==
    (Scanned /\ ~last.raised /\ last.ret # None) =>
        /\ Strip(Lower(last.arg)) \in DOMAIN name_map
        /\ name_map[Strip(Lower(last.arg))] = last.ret.s

\* every fighter of the roster scores below 0.6 for the name scanned
AllBelowThreshold ==
    \A i \in 1..Len(LoadedRoster) :
        FracLess(CombinedScore(LoadedRoster[i], ScannedName, ScannedStyle), Frac(6, 10))

\* the name scanned is a part of a fighter's name, or longer than 3 and
\* contained in one
TokenHit ==
    \E i \in 1..Len(LoadedRoster) :
        \E k \in 1..Len(Split(Lower(LoadedRoster[i].name))) :
            \/ ScannedName = Split(Lower(LoadedRoster[i].name))[k]
            \/ Len(ScannedName) > 3 /\ Contains(ScannedName, Split(Lower(LoadedRoster[i].name))[k])

\* C12 as stated: in the fuzzy step a query whose combined score is below
\* 0.6 against every loaded fighter resolves to nothing, and nothing is
\* memoized for it, also when it is contained in a part of a fighter's name.
C12_BelowThresholdUnresolved ==
    (Scanned /\ ~last.raised /\ AllBelowThreshold) =>
        /\ last.ret = None
        /\ ScannedName \notin DOMAIN name_map

\* C12, amended: in the fuzzy step a query whose combined score is below 0.6
\* against every loaded fighter, and which neither equals a part of a
\* fighter's name nor, being longer than 3, is contained in one, resolves to
\* nothing, and nothing is memoized for it.
C12_BelowThresholdNoToken ==
    (Scanned /\ ~last.raised /\ AllBelowThreshold /\ ~TokenHit) =>
        /\ last.ret = None
        /\ ScannedName \notin DOMAIN name_map

\* a query scanned for, below the threshold for every fighter and no part of
\* a name, has resolved to nothing
C12_Witness ==
    /\ Scanned /\ ~last.raised /\ LoadedRoster # <<>>
    /\ AllBelowThreshold /\ ~TokenHit
    /\ last.ret = None

(***************************************************************************)
(* The division normalizer.                                                *)
(***************************************************************************)
\* the id of the upstream's division of that lowercased name
DivisionIdOf(d) ==
    LET i == CHOOSE k \in 1..Len(UpstreamDivisions(1)) :
                  Lower(UpstreamDivisions(1)[k].categoryName) = d
    IN UpstreamDivisions(1)[i].id

\* C13: for every division d of the loaded rankings,
\* normalize_division_name(lowercase(d.categoryName)) returns d.id, also for
\* the pound-for-pound categories and for a name with "light" and "heavy".
C13_DivisionRoundTrip ==
    (last.op = "normalize_division_name" /\ ~last.raised) =>
        last.ret = Str(DivisionIdOf(last.arg))

(***************************************************************************)
(* The classifier.                                                         *)
(***************************************************************************)
Classified == last.op = "parse_query_intent"

\* the intent of a message with two names and the ids they resolved to
Comparison(id1, id2, attribute) ==
    [kind |-> "dict", intent |-> "fighter_comparison", fighter1_id |-> Str(id1),
     fighter2_id |-> Str(id2), attribute |-> attribute]

\* C14: the comparison matcher runs before every single-fighter matcher: a
\* message that matches a comparison pattern and whose two names both
\* resolve ("jones vs pereira") is classified as fighter_comparison with
\* both ids, never as fighter_info for one of the names, whatever the
\* caches hold and the upstream answers.
C14_ComparisonFirst ==
    /\ (Classified /\ last.arg = "jones vs pereira") =>
           ~last.raised /\ last.ret = Comparison("jon-jones", "alex-pereira", None)
    /\ (Classified /\ last.arg = "who is better gsp or pereira") =>
           /\ ~last.raised
           /\ last.ret = Comparison("retired:georges st pierre", "alex-pereira", Str("record"))

\* "jones vs pereira" has been classified as a comparison while the roster
\* is loaded
C14_Witness ==
    /\ Classified /\ last.arg = "jones vs pereira" /\ ~last.raised
    /\ last.ret.intent = "fighter_comparison"
    /\ LoadedRoster # <<>>

\* the eleven intents
Intents ==
    {"fighter_info", "fighter_attribute", "fighter_comparison", "physical_comparison",
     "division_champion", "division_rankings", "division_info", "all_champions",
     "all_rankings", "general_mma_question", "unknown"}

\* C15: for every message parse_query_intent returns one intent, one of the
\* eleven, and never an error.
C15_AlwaysAnIntent ==
    Classified => ~last.raised /\ last.ret.intent \in Intents

\* C16: "who is the lightweight champion" is classified as division_champion
\* with division_id "lightweight"; no earlier matcher claims it.
C16_LightweightChampion ==
    (Classified /\ last.arg = "who is the lightweight champion") =>
        /\ ~last.raised
        /\ last.ret = [kind |-> "dict", intent |-> "division_champion",
                       division_id |-> Str("lightweight")]

\* C17: "GSP" is classified as fighter_info with the retired id of Georges
\* St-Pierre, and the roster is not loaded for it.
C17_NicknameOfRetired ==
    (Classified /\ last.arg = "GSP") =>
        /\ ~last.raised
        /\ last.ret = [kind |-> "dict", intent |-> "fighter_info",
                       fighter_id |-> Str("retired:georges st pierre")]
        /\ \A i \in 1..Len(last.trace) : last.trace[i].key # "fighters"

\* C18: "compare Jones vs Pereira" is classified as fighter_comparison with
\* no attribute (null): a comparison of all attributes.
C18_CompareAllAttributes ==
    (Classified /\ last.arg = "compare Jones vs Pereira") =>
        ~last.raised /\ last.ret = Comparison("jon-jones", "alex-pereira", None)

C18_Witness ==
    /\ Classified /\ last.arg = "compare Jones vs Pereira" /\ ~last.raised
    /\ last.ret.intent = "fighter_comparison" /\ last.ret.attribute = None

\* C19: "who has the longest reach" is classified as physical_comparison of
\* the attribute reach with the comparison longest, and no name is resolved
\* for it, also when the message names a fighter.
C19_SuperlativeNoResolution ==
    (Classified /\ last.arg \in {"who has the longest reach", "does jones have the longest reach"}) =>
        /\ ~last.raised
        /\ last.ret = [kind |-> "dict", intent |-> "physical_comparison",
                       attribute_data |-> [kind |-> "dict", attribute |-> "reach",
                                           comparison |-> Str("longest")]]
        /\ ~HasEv(last.trace, {"resolve_fighter_name"})

C19_Witness ==
    /\ Classified /\ last.arg = "does jones have the longest reach" /\ ~last.raised
    /\ last.ret.intent = "physical_comparison"

(***************************************************************************)
(* The request layer.                                                      *)
(***************************************************************************)
\* the request has no message, or one that is empty once sanitized
NoMessage(data) ==
    \/ data = None
    \/ "message" \notin DOMAIN data.fields
    \/ Strip(sanitize_input(data.fields["message"])) = ""

\* C20: a request whose message is missing or empty, also empty once
\* sanitized, is answered as invalid input (status 400) and
\* parse_query_intent is not called for it.
C20_EmptyMessageRejected ==
    (last.op = "webhook" /\ NoMessage(last.arg)) =>
        /\ ~last.raised
        /\ last.ret.status = 400
        /\ ~HasEv(last.trace, {"parse_query_intent"})

\* C21: the background refresher never terminates; a cycle in which an
\* exception was raised is followed by a sleep of the retry interval (300 s),
\* a cycle without exception by a sleep of the refresh interval (1800 s),
\* and every cycle is followed by another one.
C21_RefresherKeepsCycling ==
    /\ [](refresher.pc \in {"running", "sleeping"})
    /\ [](last.op = "refresh_job" =>
             refresher.slept = IF last.raised THEN RetryInterval ELSE RefreshInterval)
    /\ \A n \in 0..(MaxCycles - 1) : (refresher.cycles = n) ~> (refresher.cycles = n + 1)

\* a cycle without exception after a cycle whose exception was caught
C21_Witness ==
    /\ last.op = "refresh_job" /\ ~last.raised
    /\ refresher.caught > 0
    /\ refresher.pc = "sleeping" /\ refresher.slept = RefreshInterval

\* the url a cache is loaded from
UrlOf(name) == OCTAGON_API_BASE_URL \o "/" \o name

\* the cycle that has just run fetched the cache `name` from the origin and
\* the cache holds what the origin served
Repopulated(name) ==
    /\ \E i \in 1..Len(last.trace) :
          last.trace[i] = [ev |-> "origin", key |-> UrlOf(name)]
    /\ TTLCache_get(CACHE[name], name, now).ret = OriginPayload(UrlOf(name), upstream)

\* C22: a cycle of the background refresher that runs while the origin is
\* reachable fetches the roster and the rankings from the origin and leaves
\* the two caches holding what it fetched, whether or not their entries had
\* expired.
C22_CycleRepopulates ==
    (last.op = "refresh_job" /\ last.arg = "origin reachable") =>
        Repopulated("fighters") /\ Repopulated("rankings")

\* C23: once the process-wide invalidation (clear_cache with the admin key)
\* has run, the alias map serves no entry that was memoized before it: the
\* map is unset, or holds its static entries only.
C23_AliasTableReset ==
    (last.op = "clear_cache" /\ last.ret.status = 200) =>
        (name_map = None \/ name_map = InitialNameMap)

\* the attribute the wording of a comparison names
VerbMap(message_lower) ==
    IF ContainsAny(<<"taller", "shorter">>, message_lower) THEN Str("height")
    ELSE IF ContainsAny(<<"heavier", "lighter">>, message_lower) THEN Str("weight")
    ELSE IF ContainsAny(<<"leg reach", "longer legs">>, message_lower) THEN Str("legReach")
    ELSE IF ContainsAny(<<"reach">>, message_lower) THEN Str("reach")
    ELSE None

\* C24: a comparison of two fighters whose names resolve has the attribute
\* its wording names: height for taller and shorter, weight for heavier and
\* lighter, reach for reach, and legReach (not reach) for "leg reach" and
\* "longer legs".
C24_AttributeFollowsVerbMap ==
    (last.op = "parse_fighter_comparison" /\ ~last.raised /\ last.ret # None) =>
        last.ret = Comparison("jon-jones", "alex-pereira", VerbMap(Strip(Lower(last.arg))))

\* the number a weight mention starts with, and whether it is in kilograms
Amount(mention) == ToNat(Split(mention)[1])

InKilograms(mention) == Contains("kg", mention)

\* the weight class of x hundred-thousandths of a pound
ClassOfExact(x) ==
    IF x <= 125 * 100000 THEN "flyweight"
    ELSE IF x <= 135 * 100000 THEN "bantamweight"
    ELSE IF x <= 145 * 100000 THEN "featherweight"
    ELSE IF x <= 155 * 100000 THEN "lightweight"
    ELSE IF x <= 170 * 100000 THEN "welterweight"
    ELSE IF x <= 185 * 100000 THEN "middleweight"
    ELSE IF x <= 205 * 100000 THEN "light-heavyweight"
    ELSE "heavyweight"

\* the whole pounds of a number of kilograms: the greatest p with
\* p <= kg * 2.20462
WholePounds(kg) ==
    CHOOSE p \in 0..(3 * kg) : p * 100000 <= kg * 220462 /\ kg * 220462 < (p + 1) * 100000

Identified == last.op = "identify_weight_class" /\ ~last.raised

\* C25 as stated: a numeric weight mention has the class of the first
\* threshold its weight does not exceed, a kilogram value being multiplied
\* by 2.20462 and the product compared with the thresholds, so that 57 kg
\* (125.66 lb) is above the flyweight threshold.
C25_KilogramsCompared ==
    Identified =>
        last.ret = Str(ClassOfExact(IF InKilograms(last.arg)
                                    THEN Amount(last.arg) * 220462
                                    ELSE Amount(last.arg) * 100000))

\* C25, amended: the product of a kilogram value and 2.20462 is cut to whole
\* pounds before it is compared with the thresholds, so that a value whose
\* product exceeds a threshold by a fraction of a pound stays in the class
\* of that threshold.
C25_KilogramsTruncated ==
    Identified =>
        last.ret = Str(WeightClassOf(IF InKilograms(last.arg)
                                     THEN WholePounds(Amount(last.arg))
                                     ELSE Amount(last.arg)))

\* 57 kg, 125.66 lb, identified as flyweight
C25_Witness ==
    /\ Identified /\ last.arg = "57 kg"
    /\ Amount(last.arg) * 220462 > 125 * 100000
    /\ last.ret = Str("flyweight")

\* get_all_fighters_data has just built the view from the roster
ViewBuilt ==
    /\ last.op = "get_all_fighters_data" /\ ~last.raised
    /\ \E i \in 1..Len(last.trace) : last.trace[i].key \in {"fighters", "fighters_data"}

\* the view has exactly one entry of every fighter of the loaded roster and
\* of every retired fighter, the height of Judo Jones ("N/A") being 0
ViewComplete(view) ==
    /\ \A id \in {LoadedRoster[i].id : i \in 1..Len(LoadedRoster)} \cup RetiredKeys :
          Cardinality({i \in 1..Len(view.items) : view.items[i].id = id}) = 1
    /\ \A i \in 1..Len(view.items) :
          view.items[i].id = JudoJones.id => view.items[i].height = 0

\* C26: the view get_all_fighters_data builds has one entry of every fighter
\* of the live roster and of every retired fighter, unparsable numbers being
\* 0, and a view that lacks entries because a detail fetch failed is not
\* kept as the cached result.
C26_ViewComplete ==
    ViewBuilt =>
        /\ Truthy(last.ret) => ViewComplete(last.ret)
        /\ Truthy(CACHE["all_fighters_data"]) => ViewComplete(CACHE["all_fighters_data"])

\* C27: after any sequence of resolve_fighter_name calls every static alias
\* (nickname, standalone last name, retired-fighter key) maps in the alias
\* map to the value it was initialised with.
C27_StaticAliasesKept ==
    name_map # None =>
        \A k \in DOMAIN InitialNameMap :
            k \in DOMAIN name_map /\ name_map[k] = InitialNameMap[k]

\* C28: whichever thread is initialising the alias map, a call of
\* resolve_fighter_name for a static alias returns the id the alias is
\* initialised with: no call finds the map without the alias.
C28_StaticAliasSeenByAll ==
    (last.op = "resolve_fighter_name" /\ ~last.raised /\ last.arg \in LazyQueries) =>
        last.ret = Str(InitialNameMap[last.arg])

\* C29: whenever the cache holds rankings, the division mapping the
\* normalizer uses (the cached one) has the lowercased categoryName of every
\* division of those rankings as a key: a mapping built without rankings does
\* not stay once rankings are loaded.
C29_MappingHasLiveDivisions ==
    (Truthy(CACHE["division_mapping"]) /\ LoadedDivisions # <<>>) =>
        \A i \in 1..Len(LoadedDivisions) :
            ODHas(CACHE["division_mapping"].items, Lower(LoadedDivisions[i].categoryName))

\* the message names a division of the loaded rankings, of that id
NamesLiveDivision(message_lower, id) ==
    \E i \in 1..Len(LoadedDivisions) :
        /\ Contains(Lower(LoadedDivisions[i].categoryName), message_lower)
        /\ LoadedDivisions[i].id = id.s

\* C30: a message with a champion keyword that no earlier matcher claims is
\* answered by the champion-keyword step, with division_champion for a live
\* division named in it or with all_champions; so a message answered by the
\* weight-class step or the open-query step has no champion keyword, and
\* what these steps answer for a division is division_rankings.
C30_ChampionKeywordStep ==
    (Classified /\ last.arg \in ChampionMessages) =>
        IF ContainsAny(CHAMPION_KEYWORDS, Strip(Lower(last.arg)))
        THEN /\ ~last.raised
             /\ last.ret.intent \in {"division_champion", "all_champions"}
             /\ last.ret.intent = "division_champion" =>
                   NamesLiveDivision(Strip(Lower(last.arg)), last.ret.division_id)
        ELSE (~last.raised /\ "division_id" \in DOMAIN last.ret) =>
                   last.ret.intent = "division_rankings"

(***************************************************************************)
(* The specifications.                                                     *)
(***************************************************************************)
\* a TTLCache of any of the TTLs, empty; the other components stay idle
TTLInit ==
    /\ tcache \in {TTLCache(ttl) : ttl \in 0..MaxTTL}
    /\ tclock = 0
    /\ tlast = NoCall
    /\ tstored = [k \in TKeys |-> None]
    /\ tthr = <<>>
    /\ twrites = 0
    /\ tstamped = EmptyDict
    /\ rl = RateLimiter(calls_per_second) /\ rclock = 0 /\ rthr = <<>> /\ rreleased = <<>>
    /\ CACHE = None /\ REDIS_ENABLED = FALSE /\ redis_db = EmptyDict
    /\ api_rate_limiter = RateLimiter(calls_per_second)
    /\ now = 0 /\ ticks = 0 /\ upstream = 0 /\ last = NoOp /\ traffic = {} /\ view_stored = 0
    /\ name_map = None /\ answers = EmptyDict
    /\ refresher = NotStarted
    /\ initializer = NotCalled

\* an empty TTLCache and its callers, outside any call
ConcInit ==
    /\ tcache \in {TTLCache(ttl) : ttl \in 1..MaxTTL}
    /\ tclock = 0
    /\ tlast = NoCall
    /\ tstored = [k \in TKeys |-> None]
    /\ tthr = [t \in TThreads |-> TIdle]
    /\ twrites = 0
    /\ tstamped = EmptyDict
    /\ rl = RateLimiter(calls_per_second) /\ rclock = 0 /\ rthr = <<>> /\ rreleased = <<>>
    /\ CACHE = None /\ REDIS_ENABLED = FALSE /\ redis_db = EmptyDict
    /\ api_rate_limiter = RateLimiter(calls_per_second)
    /\ now = 0 /\ ticks = 0 /\ upstream = 0 /\ last = NoOp /\ traffic = {} /\ view_stored = 0
    /\ name_map = None /\ answers = EmptyDict
    /\ refresher = NotStarted
    /\ initializer = NotCalled

\* the rate limiter, its first interval elapsed, and its callers
RLInit ==
    /\ rl = RateLimiter(calls_per_second)
    /\ rclock = Interval(rl)
    /\ rthr = [t \in RThreads |-> RIdle]
    /\ rreleased = <<>>
    /\ tcache = TTLCache(0) /\ tclock = 0 /\ tlast = NoCall
    /\ tstored = [k \in TKeys |-> None] /\ tthr = <<>> /\ twrites = 0 /\ tstamped = EmptyDict
    /\ CACHE = None /\ REDIS_ENABLED = FALSE /\ redis_db = EmptyDict
    /\ api_rate_limiter = RateLimiter(calls_per_second)
    /\ now = 0 /\ ticks = 0 /\ upstream = 0 /\ last = NoOp /\ traffic = {} /\ view_stored = 0
    /\ name_map = None /\ answers = EmptyDict
    /\ refresher = NotStarted
    /\ initializer = NotCalled

\* the data store as the module leaves it: empty caches, Redis enabled or not
StoreInit ==
    /\ CACHE = [rankings |-> TTLCache(3600), fighters |-> TTLCache(86400),
                fighter_details |-> TTLCache(3600), division_details |-> TTLCache(3600),
                all_fighters_data |-> None, division_mapping |-> None]
    /\ REDIS_ENABLED \in BOOLEAN
    /\ redis_db = EmptyDict
    /\ api_rate_limiter = RateLimiter(calls_per_second)
    /\ now = 0
    /\ ticks = 0
    /\ upstream \in StoreRevisions
    /\ last = NoOp
    /\ traffic \in Workloads
    /\ view_stored = 0
    /\ tcache = TTLCache(0) /\ tclock = 0 /\ tlast = NoCall
    /\ tstored = [k \in TKeys |-> None] /\ tthr = <<>> /\ twrites = 0 /\ tstamped = EmptyDict
    /\ rl = RateLimiter(calls_per_second) /\ rclock = 0 /\ rthr = <<>> /\ rreleased = <<>>
    /\ name_map = None /\ answers = EmptyDict
    /\ refresher = NotStarted
    /\ initializer = NotCalled

\* the data store with the rankings and the division mapping in use
DivisionInit ==
    /\ CACHE = [rankings |-> TTLCache(3600), fighters |-> TTLCache(86400),
                fighter_details |-> TTLCache(3600), division_details |-> TTLCache(3600),
                all_fighters_data |-> None, division_mapping |-> None]
    /\ REDIS_ENABLED \in BOOLEAN
    /\ redis_db = EmptyDict
    /\ api_rate_limiter = RateLimiter(calls_per_second)
    /\ now = 0
    /\ ticks = 0
    /\ upstream \in StoreRevisions
    /\ last = NoOp
    /\ traffic = {"build_division_mapping", "load_rankings_data"}
    /\ view_stored = 0
    /\ tcache = TTLCache(0) /\ tclock = 0 /\ tlast = NoCall
    /\ tstored = [k \in TKeys |-> None] /\ tthr = <<>> /\ twrites = 0 /\ tstamped = EmptyDict
    /\ rl = RateLimiter(calls_per_second) /\ rclock = 0 /\ rthr = <<>> /\ rreleased = <<>>
    /\ name_map = None /\ answers = EmptyDict
    /\ refresher = NotStarted
    /\ initializer = NotCalled

\* the data store and the resolver as the module leaves them
IntentInit ==
    /\ CACHE = [rankings |-> TTLCache(3600), fighters |-> TTLCache(86400),
                fighter_details |-> TTLCache(3600), division_details |-> TTLCache(3600),
                all_fighters_data |-> None, division_mapping |-> None]
    /\ REDIS_ENABLED \in BOOLEAN
    /\ redis_db = EmptyDict
    /\ api_rate_limiter = RateLimiter(calls_per_second)
    /\ now = 0
    /\ ticks = 0
    /\ upstream \in StoreRevisions
    /\ last = NoOp
    /\ traffic = {"load_fighters_data"}
    /\ view_stored = 0
    /\ name_map = None
    /\ answers = EmptyDict
    /\ refresher = NotStarted
    /\ initializer = NotCalled
    /\ tcache = TTLCache(0) /\ tclock = 0 /\ tlast = NoCall
    /\ tstored = [k \in TKeys |-> None] /\ tthr = <<>> /\ twrites = 0 /\ tstamped = EmptyDict
    /\ rl = RateLimiter(calls_per_second) /\ rclock = 0 /\ rthr = <<>> /\ rreleased = <<>>

\* the data store without Redis, and resolve_fighter_name without its name_map
ResolveInit ==
    /\ CACHE = [rankings |-> TTLCache(3600), fighters |-> TTLCache(86400),
                fighter_details |-> TTLCache(3600), division_details |-> TTLCache(3600),
                all_fighters_data |-> None, division_mapping |-> None]
    /\ REDIS_ENABLED = FALSE
    /\ redis_db = EmptyDict
    /\ api_rate_limiter = RateLimiter(calls_per_second)
    /\ now = 0
    /\ ticks = 0
    /\ upstream \in StoreRevisions
    /\ last = NoOp
    /\ traffic = {}
    /\ view_stored = 0
    /\ name_map = None
    /\ answers = [k \in QueryKeys |-> None]
    /\ refresher = NotStarted
    /\ initializer = NotCalled
    /\ tcache = TTLCache(0) /\ tclock = 0 /\ tlast = NoCall
    /\ tstored = [k \in TKeys |-> None] /\ tthr = <<>> /\ twrites = 0 /\ tstamped = EmptyDict
    /\ rl = RateLimiter(calls_per_second) /\ rclock = 0 /\ rthr = <<>> /\ rreleased = <<>>

\* the resolver without its name_map, the origin serving a roster
AliasInit ==
    /\ CACHE = [rankings |-> TTLCache(3600), fighters |-> TTLCache(86400),
                fighter_details |-> TTLCache(3600), division_details |-> TTLCache(3600),
                all_fighters_data |-> None, division_mapping |-> None]
    /\ REDIS_ENABLED = FALSE
    /\ redis_db = EmptyDict
    /\ api_rate_limiter = RateLimiter(calls_per_second)
    /\ now = 0
    /\ ticks = 0
    /\ upstream \in Revisions \ {0}
    /\ last = NoOp
    /\ traffic = {}
    /\ view_stored = 0
    /\ name_map = None
    /\ answers = [k \in QueryKeys |-> None]
    /\ refresher = NotStarted
    /\ initializer = NotCalled
    /\ tcache = TTLCache(0) /\ tclock = 0 /\ tlast = NoCall
    /\ tstored = [k \in TKeys |-> None] /\ tthr = <<>> /\ twrites = 0 /\ tstamped = EmptyDict
    /\ rl = RateLimiter(calls_per_second) /\ rclock = 0 /\ rthr = <<>> /\ rreleased = <<>>

\* the resolver before its first call, serving concurrent requests
LazyInit ==
    /\ CACHE = [rankings |-> TTLCache(3600), fighters |-> TTLCache(86400),
                fighter_details |-> TTLCache(3600), division_details |-> TTLCache(3600),
                all_fighters_data |-> None, division_mapping |-> None]
    /\ REDIS_ENABLED = FALSE
    /\ redis_db = EmptyDict
    /\ api_rate_limiter = RateLimiter(calls_per_second)
    /\ now = 0
    /\ ticks = 0
    /\ upstream \in Revisions
    /\ last = NoOp
    /\ traffic = {}
    /\ view_stored = 0
    /\ name_map = None
    /\ answers = EmptyDict
    /\ refresher = NotStarted
    /\ initializer = NotCalled
    /\ tcache = TTLCache(0) /\ tclock = 0 /\ tlast = NoCall
    /\ tstored = [k \in TKeys |-> None] /\ tthr = <<>> /\ twrites = 0 /\ tstamped = EmptyDict
    /\ rl = RateLimiter(calls_per_second) /\ rclock = 0 /\ rthr = <<>> /\ rreleased = <<>>

\* a TTLCache used by one caller
SpecTTL == TTLInit /\ [][TTLNext]_vars

\* the data store with the background refresher started
RefreshInit ==
    /\ CACHE = [rankings |-> TTLCache(3600), fighters |-> TTLCache(86400),
                fighter_details |-> TTLCache(3600), division_details |-> TTLCache(3600),
                all_fighters_data |-> None, division_mapping |-> None]
    /\ REDIS_ENABLED \in BOOLEAN
    /\ redis_db = EmptyDict
    /\ api_rate_limiter = RateLimiter(calls_per_second)
    /\ now = 0
    /\ ticks = 0
    /\ upstream \in StoreRevisions
    /\ last = NoOp
    /\ traffic = {"load_fighters_data", "load_rankings_data"}
    /\ view_stored = 0
    /\ tcache = TTLCache(0) /\ tclock = 0 /\ tlast = NoCall
    /\ tstored = [k \in TKeys |-> None] /\ tthr = <<>> /\ twrites = 0 /\ tstamped = EmptyDict
    /\ rl = RateLimiter(calls_per_second) /\ rclock = 0 /\ rthr = <<>> /\ rreleased = <<>>
    /\ name_map = None /\ answers = EmptyDict
    /\ refresher = Started
    /\ initializer = NotCalled

RefreshNext ==
    \/ RefreshCycle
    \/ RefreshSleep
    \/ UpstreamChange

\* a TTLCache shared by concurrent callers
SpecTTLConc == ConcInit /\ [][ConcNext]_vars

\* the rate limiter shared by concurrent callers
SpecRL == RLInit /\ [][RLNext]_vars

StoreNext ==
    \/ LoadFighters
    \/ LoadRankings
    \/ \E f \in {"jon-jones"} : GetFighter(f)
    \/ \E d \in DivisionIds : GetDivision(d)
    \/ GetAllFighters
    \/ BuildDivisionMapping
    \/ ClearCache
    \/ Tick
    \/ UpstreamChange

\* name resolution over the data store
SpecResolve == ResolveInit /\ [][ResolveNext]_vars

\* the comparison parser over the resolver
SpecCompare == IntentInit /\ [][CompareNext]_vars

\* the weight classes of numeric mentions
SpecWeight == DivisionInit /\ [][WeightNext]_vars

\* the alias map of the resolver
SpecAlias == AliasInit /\ [][AliasNext]_vars

\* the first call of the resolver among concurrent calls
SpecLazy == LazyInit /\ [][LazyNext]_vars

\* the champion-keyword step of the classifier and the steps after it
SpecChampion == IntentInit /\ [][ChampionNext]_vars

\* the classifier over the data store
SpecIntent == IntentInit /\ [][IntentNext]_vars

\* the request layer over the classifier
SpecWebhook == IntentInit /\ [][WebhookNext]_vars

\* the division normalizer over the rankings
SpecDivision == DivisionInit /\ [][DivisionNext]_vars

\* the fuzzy step of name resolution
SpecFuzzy == ResolveInit /\ [][FuzzyNext]_vars

\* the background refresher over the data store
SpecRefresh == RefreshInit /\ [][RefreshNext]_vars

\* the same, the refresher's thread being scheduled and its sleeps returning
SpecRefreshLive == SpecRefresh /\ WF_refresher(RefresherCycles) /\ WF_vars(RefreshSleep)

\* the data store's lookups and the cache invalidation
Spec == StoreInit /\ [][StoreNext]_vars

====
